---------------------------- MODULE Spec2Model ----------------------------
(***************************************************************************)
(* A model of the two hard components of read-with-ai:                     *)
(*   - the batch translator (services/translationService.ts,               *)
(*     PDFTranslationService.translateBook / translateChunksParallel /     *)
(*     translateBatch / saveTranslatedBook);                               *)
(*   - the RAG orchestrator (enhancedRagService: generateAnswer,           *)
(*     decideRetrievalSources, searchChatHistory, multiQueryRetrieval,     *)
(*     chainOfThoughtReasoning).                                           *)
(* Each component has its own specification; the variables of the other    *)
(* components stay at their initial value under it.                        *)
(***************************************************************************)
EXTENDS Integers, Sequences, FiniteSets, TLC

(***************************************************************************)
(* Bounds of the model.                                                    *)
(***************************************************************************)
\* largest number of chunks of the book handed to translateBook
MaxChunks == 4
\* largest batchSize option passed explicitly
MaxBatchSize == 2
\* largest maxWorkers option passed explicitly
MaxWorkers == 2

(***************************************************************************)
(* Program constants.                                                      *)
(***************************************************************************)
\* translationService.ts:344  batchSize = 5 (option default)
DefaultBatchSize == 5
\* translationService.ts:345  maxWorkers = 10 (option default)
DefaultMaxWorkers == 10
\* translationService.ts:383  const embeddingBatchSize = 20
EmbeddingBatchSize == 20

(***************************************************************************)
(* Generic helpers.                                                        *)
(***************************************************************************)
Min(a, b) == IF a <= b THEN a ELSE b

Max(a, b) == IF a >= b THEN a ELSE b

\* Array.prototype.slice(from, to) on a 1-based sequence with 0-based bounds
Slice(s, from, to) == SubSeq(s, from + 1, Min(to, Len(s)))

\* a hole of `new Array(n)`: a position never assigned
Hole == [hole |-> TRUE]

\* arr[idx0] = v on a JavaScript array (0-based); assigning past the end
\* grows the array and leaves holes in between
ArraySet(arr, idx0, v) ==
    IF idx0 < Len(arr)
    THEN [arr EXCEPT ![idx0 + 1] = v]
    ELSE [k \in 1..(idx0 + 1) |->
            IF k <= Len(arr) THEN arr[k] ELSE IF k = idx0 + 1 THEN v ELSE Hole]

(***************************************************************************)
(* Texts of the translator.  A text is a record: which source text it is   *)
(* (0: empty or whitespace only) and whether it is the model's translation.*)
(***************************************************************************)
Blank == [t |-> 0, tr |-> FALSE]

SourceText(i) == [t |-> i, tr |-> FALSE]

\* what the model answers for one segment
Translated(c) == [t |-> c.t, tr |-> TRUE]

\* text && text.trim()
IsNonEmpty(c) == c.t # 0

\* the chunk list of the book under translation: ids and pages as ingestion
\* makes them, at most one chunk with empty text (position emptyAt, 0: none)
SourceChunks(n, emptyAt) ==
    [i \in 1..n |->
        [id |-> i, bookId |-> "src", pageNumber |-> (i + 1) \div 2,
         content |-> IF i = emptyAt THEN Blank ELSE SourceText(i),
         translatedTo |-> "none", embedding |-> "orig"]]


(***************************************************************************)
(* PDFTranslationService.translateBatch as a function of the texts and of  *)
(* what the model call does.                                               *)
(***************************************************************************)
\* nonEmptyIndices: the positions of the texts sent to the model, in order
NonEmptyIndices(texts) ==
    SelectSeq([i \in 1..Len(texts) |-> i], LAMBDA i : IsNonEmpty(texts[i]))

\* a segment of the response that answers no segment of the request
Surplus == [t |-> 0, tr |-> TRUE]

\* what one model call does: it is not made (nothing to send), it throws,
\* or its response splits on the delimiter into n >= 1 segments, the j-th
\* being the translation of the j-th text sent; n = count is a complete
\* response, n = count - 1 a short one
ModelOutcomes(count) ==
    IF count = 0
    THEN {[called |-> FALSE, throws |-> FALSE, n |-> 0]}
    ELSE {[called |-> TRUE, throws |-> TRUE, n |-> 0]}
         \cup {[called |-> TRUE, throws |-> FALSE, n |-> k] :
                 k \in Max(1, count - 1)..count}

\* response.split('<<<TRANSLATION_BOUNDARY>>>').map(clean)
ParsedTranslations(sent, n) ==
    [j \in 1..n |-> IF j <= Len(sent) THEN Translated(sent[j]) ELSE Surplus]

\* translateBatch whose catch block returns empty texts instead of the input
TranslateBatchDropsOnThrow(texts, outcome) ==
    IF outcome.throws
    THEN [i \in 1..Len(texts) |-> Blank]
    ELSE [i \in 1..Len(texts) |->
            IF IsNonEmpty(texts[i]) THEN Translated(texts[i]) ELSE texts[i]]

\* translateBatch applying translations[i] at input position i
TranslateBatchByInputIndex(texts, outcome) ==
    LET idx == NonEmptyIndices(texts)
        sent == [j \in 1..Len(idx) |-> texts[idx[j]]]
        translations == ParsedTranslations(sent, outcome.n)
    IN  IF Len(texts) = 0 THEN <<>>
        ELSE IF Len(idx) = 0 THEN texts
        ELSE IF outcome.throws THEN texts
        ELSE [i \in 1..Len(texts) |->
                IF IsNonEmpty(texts[i]) /\ i <= Len(translations)
                THEN translations[i]
                ELSE texts[i]]

TranslateBatch(texts, outcome) ==
    LET idx == NonEmptyIndices(texts)
        sent == [j \in 1..Len(idx) |-> texts[idx[j]]]
        translations == ParsedTranslations(sent, outcome.n)
        \* the position of originalIndex in nonEmptyIndices (0: not there)
        posOf(i) == IF \E j \in 1..Len(idx) : idx[j] = i
                    THEN CHOOSE j \in 1..Len(idx) : idx[j] = i
                    ELSE 0
    IN  IF Len(texts) = 0 THEN <<>>
        ELSE IF Len(idx) = 0 THEN texts
        ELSE IF outcome.throws THEN texts
        ELSE [i \in 1..Len(texts) |->
                IF posOf(i) # 0 /\ posOf(i) <= Len(translations)
                THEN translations[posOf(i)]
                ELSE texts[i]]

(***************************************************************************)
(* The batch translator: state.                                            *)
(***************************************************************************)
VARIABLES
    tpc,            \* where translateBook is: call, loop, join, embed, pdf, save, done
    tBook,          \* the book argument: [kind, chunks]
    tOpts,          \* the options argument: [batchSize, maxWorkers] (0: not given)
    cbFaulty,       \* whether the caller's onProgress may throw
    batchSize,      \* this.batchSize
    maxConcurrentTranslations, \* this.maxConcurrentTranslations
    batches,        \* translateChunksParallel: the partition
    batchIndex,     \* the for loop's batchIndex
    maxConcurrent,  \* the local const maxConcurrent
    activeBatches,  \* the in-flight counter
    bstatus,        \* per batch: queued, inflight, done, rejected
    bstart,         \* per batch: startIdx computed when it was started
    boutcome,       \* per batch: what its model call did
    processedChunks,
    translatedChunks, \* the pre-sized output array
    progressLog,    \* the onProgress calls received by the caller: [current, total]
    allEmbeddings,
    tResult,        \* how translateBook settled (tpc = done): what it returned, or raised
    dbBooks,        \* ids of the stored book records
    dbChunks,       \* the chunk store, keyPath id: chunk id -> record
    decrements,     \* per batch: how often its finally block ran
    embedI,         \* the embedding loop's i
    translatedBook  \* the derived book once assembled

trVars == <<tpc, tBook, tOpts, cbFaulty, batchSize, maxConcurrentTranslations,
            batches, batchIndex, maxConcurrent, activeBatches, bstatus, bstart,
            boutcome, processedChunks, translatedChunks, progressLog,
            allEmbeddings, tResult, dbBooks, dbChunks, decrements,
            embedI, translatedBook>>

\* the state of the RAG orchestrator
VARIABLES
    run,              \* the generateAnswer call in progress: its locals, what it
                      \* returned, and what its callbacks received
    rBook,            \* the book argument
    rHistory,         \* options.chatHistory ([given |-> FALSE] when absent)
    bookVectorStores, \* the module-level cache: book id -> vector store
    embedCalls,       \* embedDocuments calls made to index the book's chunks
    embedded,         \* how many of them returned the chunks' embeddings
    runs              \* calls started so far

ragVars == <<run, rBook, rHistory, bookVectorStores, embedCalls, embedded, runs>>

\* the state of the components modelled as functions of their input
VARIABLES
    stream,           \* chainOfThoughtReasoning's loop over one answer stream
    decision,         \* one decideRetrievalSources call
    chat,             \* one searchChatHistory call
    search            \* one similaritySearch call

\* the state of the callers of getOrCreateVectorStore and of the Reader
VARIABLES
    getters,          \* per caller of getOrCreateVectorStore: where it is
    reader            \* the Reader component: its thread's messages and the
                      \* request in progress

\* two translateBook invocations sharing the service object, and the
\* application's library
VARIABLES
    pair,             \* the service fields and the locals of two invocations
    tb,               \* one translateBatch call
    emb,              \* the embedding loop of translateBook on a long chunk list
    cbRun,            \* generateAnswer with callbacks that may throw: where it is, what threw
    panel,            \* one chat thread of the Reader with its chat panel: messages, isAiThinking, runs in flight
    py,               \* translateBookWithPython: where it is, its timer, the progress it reported
    mq,               \* multiQueryRetrieval: the model's output, the query list, the searches made
    app               \* the stored books, chunks and threads, and the book list

\* what each component leaves alone
otherThanTr == <<ragVars, stream, decision, chat, search, getters, reader, pair, app, tb, emb, cbRun, panel, py, mq>>
otherThanRag == <<trVars, stream, decision, chat, search, getters, reader, pair, app, tb, emb, cbRun, panel, py, mq>>
otherThanStream == <<trVars, ragVars, decision, chat, search, getters, reader, pair, app, tb, emb, cbRun, panel, py, mq>>
otherThanDecision == <<trVars, ragVars, stream, chat, search, getters, reader, pair, app, tb, emb, cbRun, panel, py, mq>>
otherThanChat == <<trVars, ragVars, stream, decision, search, getters, reader, pair, app, tb, emb, cbRun, panel, py, mq>>
otherThanSearch == <<trVars, ragVars, stream, decision, chat, getters, reader, pair, app, tb, emb, cbRun, panel, py, mq>>
otherThanStore == <<trVars, ragVars, stream, decision, chat, search, reader, pair, app, tb, emb, cbRun, panel, py, mq>>
otherThanReader == <<trVars, ragVars, stream, decision, chat, search, getters, pair, app, tb, emb, cbRun, panel, py, mq>>
otherThanPair == <<trVars, ragVars, stream, decision, chat, search, getters, reader, app, tb, emb, cbRun, panel, py, mq>>
otherThanApp == <<trVars, ragVars, stream, decision, chat, search, getters, reader, pair, tb, emb, cbRun, panel, py, mq>>
otherThanQueries == <<trVars, ragVars, stream, decision, chat, search, getters, reader, pair, app, tb, emb, cbRun, panel, py>>
\* translateBookWithPython runs the translator: its frame leaves trVars out
otherThanPython == <<ragVars, stream, decision, chat, search, getters, reader, pair, app, tb, emb, cbRun, panel, mq>>
otherThanPanel == <<trVars, ragVars, stream, decision, chat, search, getters, reader, pair, app, tb, emb, cbRun, py, mq>>
otherThanCallbacks == <<trVars, ragVars, stream, decision, chat, search, getters, reader, pair, app, tb, emb, panel, py, mq>>
otherThanEmbed == <<trVars, ragVars, stream, decision, chat, search, getters, reader, pair, app, tb, cbRun, panel, py, mq>>
otherThanBatch == <<trVars, ragVars, stream, decision, chat, search, getters, reader, pair, app, emb, cbRun, panel, py, mq>>

\* whether a call of the caller's callback throws
CbThrows == IF cbFaulty THEN BOOLEAN ELSE {FALSE}

NoOutcome == [called |-> FALSE, throws |-> FALSE, n |-> 0]

NoResult ==
    [raised |-> FALSE, success |-> FALSE, error |-> "none", translatedPages |-> 0,
     hasBook |-> FALSE]

NoBook == [id |-> "none", chunks |-> <<>>, fileBuffer |-> "none"]

\* the chunk store holding the source book's records
StoredChunks(chunks) ==
    [id \in {chunks[i].id : i \in 1..Len(chunks)} |->
        LET c == chunks[CHOOSE i \in 1..Len(chunks) : chunks[i].id = id]
        IN  [bookId |-> c.bookId, content |-> c.content]]

\* the books a caller may pass: none, one without a chunk list, one with
\* 0..MaxChunks chunks
TrBooks ==
    {[kind |-> "missing", chunks |-> <<>>], [kind |-> "nochunks", chunks |-> <<>>]}
    \cup {[kind |-> "ok", chunks |-> SourceChunks(n, e)] :
            n \in 0..MaxChunks, e \in 0..1}

TrOptions == [batchSize : 0..MaxBatchSize, maxWorkers : 0..MaxWorkers]

TrInit ==
    /\ tpc = "call"
    /\ tBook \in TrBooks
    /\ tOpts \in TrOptions
    /\ cbFaulty \in BOOLEAN
    /\ batchSize = DefaultBatchSize
    /\ maxConcurrentTranslations = DefaultMaxWorkers
    /\ batches = <<>>
    /\ batchIndex = 0
    /\ maxConcurrent = 0
    /\ activeBatches = 0
    /\ bstatus = <<>>
    /\ bstart = <<>>
    /\ boutcome = <<>>
    /\ processedChunks = 0
    /\ translatedChunks = <<>>
    /\ progressLog = <<>>
    /\ allEmbeddings = <<>>
    /\ tResult = NoResult
    /\ dbBooks = IF tBook.kind = "missing" THEN {} ELSE {"src"}
    /\ dbChunks = StoredChunks(tBook.chunks)
    /\ decrements = <<>>
    /\ embedI = 0
    /\ translatedBook = NoBook


(***************************************************************************)
(* The batch translator: operations.                                       *)
(***************************************************************************)
\* the exception escapes translateBook
Rethrown(msg) ==
    [raised |-> TRUE, success |-> FALSE, error |-> msg, translatedPages |-> 0,
     hasBook |-> FALSE]

\* the catch block of translateBook around its whole body: whatever was
\* thrown is returned as a structured failure
Failure(msg) ==
    [raised |-> FALSE, success |-> FALSE, error |-> msg, translatedPages |-> 0,
     hasBook |-> FALSE]

\* while (activeBatches >= maxConcurrent): the loop is left when a slot is free
SlotAlwaysFree(active, limit) == TRUE

SlotFreeBelowLast(active, limit) == active < limit - 1

SlotFree(active, limit) == ~(active >= limit)

\* for (i = 0; i < chunks.length; i += size) batches.push(chunks.slice(i, i + size))
Partition(chunks, size) ==
    [b \in 1..((Len(chunks) + size - 1) \div size) |->
        Slice(chunks, (b - 1) * size, Min((b - 1) * size + size, Len(chunks)))]

\* translateBook up to its first await: the options are stored on the
\* service, the book is validated, and translateChunksParallel partitions
\* the chunks and enters its scheduling loop
TranslateBookCall ==
    /\ tpc = "call"
    /\ LET bs == IF tOpts.batchSize = 0 THEN DefaultBatchSize ELSE tOpts.batchSize
           mw == IF tOpts.maxWorkers = 0 THEN DefaultMaxWorkers ELSE tOpts.maxWorkers
           n  == Len(tBook.chunks)
       IN  /\ batchSize' = bs
           /\ maxConcurrentTranslations' = mw
           /\ IF tBook.kind # "ok" \/ n = 0
              THEN /\ tResult' = Failure("Invalid book or no content to translate")
                   /\ tpc' = "done"
                   /\ UNCHANGED <<batches, maxConcurrent, bstatus, bstart, boutcome,
                                  translatedChunks, progressLog, decrements>>
              ELSE \E thr1 \in CbThrows, thr2 \in CbThrows :
                   IF thr1 \/ thr2
                   THEN /\ progressLog' = IF thr1 THEN <<>>
                                          ELSE <<[current |-> 0, total |-> n]>>
                        /\ tResult' = Failure("callback")
                        /\ tpc' = "done"
                        /\ UNCHANGED <<batches, maxConcurrent, bstatus, bstart,
                                       boutcome, translatedChunks, decrements>>
                   ELSE /\ progressLog' = <<[current |-> 0, total |-> n],
                                            [current |-> 0, total |-> n]>>
                        /\ batches' = Partition(tBook.chunks, bs)
                        /\ translatedChunks' = [i \in 1..n |-> Hole]
                        /\ maxConcurrent' = mw
                        /\ bstatus' = [b \in 1..Len(batches') |-> "queued"]
                        /\ bstart' = [b \in 1..Len(batches') |-> 0]
                        /\ boutcome' = [b \in 1..Len(batches') |-> NoOutcome]
                        /\ decrements' = [b \in 1..Len(batches') |-> 0]
                        /\ tpc' = IF Len(batches') = 0 THEN "join" ELSE "loop"
                        /\ UNCHANGED tResult
    /\ UNCHANGED otherThanTr
    /\ UNCHANGED <<tBook, tOpts, cbFaulty, batchIndex, activeBatches, processedChunks,
                   allEmbeddings, dbBooks, dbChunks, embedI, translatedBook>>

\* one turn of the for loop past its while: the counter is incremented, the
\* batch's startIdx is computed and its async body is started (it runs up to
\* the model call); after the last batch the loop ends in Promise.all
StartBatch ==
    /\ tpc = "loop"
    /\ batchIndex < Len(batches)
    /\ SlotFree(activeBatches, maxConcurrent)
    /\ activeBatches' = activeBatches + 1
    /\ bstatus' = [bstatus EXCEPT ![batchIndex + 1] = "inflight"]
    /\ bstart' = [bstart EXCEPT ![batchIndex + 1] = batchIndex * batchSize]
    /\ batchIndex' = batchIndex + 1
    /\ tpc' = IF batchIndex + 1 < Len(batches) THEN "loop" ELSE "join"
    /\ UNCHANGED otherThanTr
    /\ UNCHANGED <<tBook, tOpts, cbFaulty, batchSize, maxConcurrentTranslations,
                   batches, maxConcurrent, boutcome, processedChunks, translatedChunks,
                   progressLog, allEmbeddings, tResult, dbBooks, dbChunks,
                   decrements, embedI, translatedBook>>

\* while (activeBatches >= maxConcurrent) await new Promise(setTimeout 100)
WaitForSlot ==
    /\ tpc = "loop"
    /\ batchIndex < Len(batches)
    /\ ~SlotFree(activeBatches, maxConcurrent)
    /\ UNCHANGED otherThanTr
    /\ UNCHANGED trVars

\* the batch's chunks appended in completion order: written at the first
\* positions not yet assigned
WriteBatchInCompletionOrder(out, batch, startIdx, texts) ==
    LET RECURSIVE W(_, _)
        W(arr, i) ==
            IF i > Len(batch) THEN arr
            ELSE LET free == {k \in 1..Len(arr) : arr[k] = Hole}
                     at   == IF free = {} THEN Len(arr) + 1
                             ELSE CHOOSE k \in free : \A m \in free : k <= m
                 IN  W(ArraySet(arr, at - 1,
                                [batch[i] EXCEPT !.content = texts[i],
                                                 !.translatedTo = "tgt"]),
                       i + 1)
    IN  W(out, 1)

\* batch.forEach((chunk, i) => translatedChunks[startIdx + i] = {...})
WriteBatch(out, batch, startIdx, texts) ==
    LET RECURSIVE W(_, _)
        W(arr, i) ==
            IF i > Len(batch) THEN arr
            ELSE W(ArraySet(arr, startIdx + (i - 1),
                            [batch[i] EXCEPT !.content = texts[i],
                                             !.translatedTo = "tgt"]),
                   i + 1)
    IN  W(out, 1)

AddProcessedCountsBatches(processed, batch) == processed + 1

\* processedChunks += batch.length
AddProcessed(processed, batch) == processed + Len(batch)

\* the model call of an in-flight batch settles: translateBatch returns, the
\* chunks are written at their global positions, progress is reported, and
\* the finally block releases the slot
CompleteBatch(b) ==
    /\ b \in 1..Len(batches)
    /\ bstatus[b] = "inflight"
    /\ LET batch == batches[b]
           texts == [i \in 1..Len(batch) |-> batch[i].content]
       IN  \E o \in ModelOutcomes(Len(NonEmptyIndices(texts))), thr \in CbThrows :
              /\ boutcome' = [boutcome EXCEPT ![b] = o]
              /\ translatedChunks' =
                    WriteBatch(translatedChunks, batch, bstart[b], TranslateBatch(texts, o))
              /\ processedChunks' = AddProcessed(processedChunks, batch)
              /\ progressLog' =
                    IF thr THEN progressLog
                    ELSE Append(progressLog,
                                [current |-> processedChunks', total |-> Len(tBook.chunks)])
              /\ bstatus' = [bstatus EXCEPT ![b] = IF thr THEN "rejected" ELSE "done"]
    /\ activeBatches' = activeBatches - 1
    /\ decrements' = [decrements EXCEPT ![b] = @ + 1]
    /\ UNCHANGED otherThanTr
    /\ UNCHANGED <<tpc, tBook, tOpts, cbFaulty, batchSize, maxConcurrentTranslations,
                   batches, batchIndex, maxConcurrent, bstart, allEmbeddings, tResult,
                   dbBooks, dbChunks, embedI, translatedBook>>

\* await Promise.all(batchPromises): it rejects as soon as one batch body has
\* rejected (translateBook's catch returns the failure), and resolves when
\* all have finished; translateBook then reports and starts the embeddings
JoinBatches ==
    /\ tpc = "join"
    /\ \/ /\ \E b \in 1..Len(batches) : bstatus[b] = "rejected"
          /\ tResult' = Failure("callback")
          /\ tpc' = "done"
          /\ UNCHANGED progressLog
       \/ /\ \A b \in 1..Len(batches) : bstatus[b] = "done"
          /\ \E thr \in CbThrows :
                IF thr
                THEN /\ tResult' = Failure("callback")
                     /\ tpc' = "done"
                     /\ UNCHANGED progressLog
                ELSE /\ progressLog' =
                          Append(progressLog, [current |-> Len(translatedChunks),
                                               total |-> Len(translatedChunks)])
                     /\ tpc' = "embed"
                     /\ UNCHANGED tResult
    /\ UNCHANGED otherThanTr
    /\ UNCHANGED <<tBook, tOpts, cbFaulty, batchSize, maxConcurrentTranslations,
                   batches, batchIndex, maxConcurrent, activeBatches, bstatus, bstart,
                   boutcome, processedChunks, translatedChunks, allEmbeddings, dbBooks, dbChunks, decrements, embedI, translatedBook>>

\* generateEmbeddingsBatch returning the vectors in reverse order
GenerateEmbeddingsReversed(texts, remoteOk) ==
    [j \in 1..Len(texts) |->
        [of |-> texts[Len(texts) + 1 - j],
         via |-> IF remoteOk THEN "remote" ELSE "fallback"]]

\* generateEmbeddingsBatch: the remote vectors, or on failure the hash
\* fallback; either way one vector per text, in order
GenerateEmbeddingsBatch(texts, remoteOk) ==
    [j \in 1..Len(texts) |->
        [of |-> texts[j], via |-> IF remoteOk THEN "remote" ELSE "fallback"]]

\* translatedChunks.map((chunk, index) => ({...chunk, embedding: allEmbeddings[index]}))
ChunksWithEmbeddings(chunks, embs) ==
    [i \in 1..Len(chunks) |-> [chunks[i] EXCEPT !.embedding = embs[i]]]

\* one embedding sub-batch settles; after the last one the derived chunks are
\* assembled and the translated PDF is requested
EmbedStep ==
    /\ tpc = "embed"
    /\ \E remoteOk \in BOOLEAN, thr1 \in CbThrows, thr2 \in CbThrows :
          LET n     == Len(translatedChunks)
              batch == Slice(translatedChunks, embedI, Min(embedI + EmbeddingBatchSize, n))
              texts == [j \in 1..Len(batch) |-> batch[j].content]
              last  == ~(embedI + EmbeddingBatchSize < n)
          IN  /\ allEmbeddings' = allEmbeddings \o GenerateEmbeddingsBatch(texts, remoteOk)
              /\ embedI' = embedI + EmbeddingBatchSize
              /\ IF thr1 \/ (last /\ thr2)
                 THEN /\ tResult' = Failure("callback")
                      /\ tpc' = "done"
                      /\ progressLog' =
                            IF thr1 THEN progressLog
                            ELSE Append(progressLog, [current |-> n, total |-> n])
                 ELSE /\ progressLog' =
                            Append(progressLog, [current |-> n, total |-> n])
                            \o (IF last THEN <<[current |-> n, total |-> n]>> ELSE <<>>)
                      /\ tpc' = IF last THEN "pdf" ELSE "embed"
                      /\ UNCHANGED tResult
    /\ UNCHANGED otherThanTr
    /\ UNCHANGED <<tBook, tOpts, cbFaulty, batchSize, maxConcurrentTranslations,
                   batches, batchIndex, maxConcurrent, activeBatches, bstatus, bstart,
                   boutcome, processedChunks, translatedChunks, dbBooks,
                   dbChunks, decrements, translatedBook>>

\* the PDF request settles (a failure falls back to the original file); the
\* derived book is assembled and saveTranslatedBook is called
PdfStep ==
    /\ tpc = "pdf"
    /\ \E pdfOk \in BOOLEAN, thr \in CbThrows :
          LET n == Len(translatedChunks)
          IN  /\ translatedBook' =
                    [id |-> "derived",
                     chunks |-> ChunksWithEmbeddings(translatedChunks, allEmbeddings),
                     fileBuffer |-> IF pdfOk THEN "translated" ELSE "original"]
              /\ IF thr
                 THEN /\ tResult' = Failure("callback")
                      /\ tpc' = "done"
                      /\ UNCHANGED progressLog
                 ELSE /\ progressLog' = Append(progressLog, [current |-> n, total |-> n])
                      /\ tpc' = "save"
                      /\ UNCHANGED tResult
    /\ UNCHANGED otherThanTr
    /\ UNCHANGED <<tBook, tOpts, cbFaulty, batchSize, maxConcurrentTranslations,
                   batches, batchIndex, maxConcurrent, activeBatches, bstatus, bstart,
                   boutcome, processedChunks, translatedChunks, allEmbeddings, dbBooks, dbChunks, decrements, embedI>>

\* db.chunks.put for the first k chunks of the book: the store's key is the
\* chunk id, so a record with that id is replaced
PutChunks(store, book, k) ==
    LET ids == {book.chunks[i].id : i \in 1..k}
    IN  [id \in (DOMAIN store) \cup ids |->
            IF id \in ids
            THEN LET c == book.chunks[CHOOSE i \in 1..k : book.chunks[i].id = id]
                 IN  [bookId |-> book.id, content |-> c.content]
            ELSE store[id]]

\* saveTranslatedBook settles: the book record and the chunk records are
\* written, or a write fails (the book record, or a chunk record after k
\* chunk records were written) and the save throws
SaveStep ==
    /\ tpc = "save"
    /\ \/ \E thr \in CbThrows :
            /\ dbBooks' = dbBooks \cup {translatedBook.id}
            /\ dbChunks' = PutChunks(dbChunks, translatedBook, Len(translatedBook.chunks))
            /\ IF thr
               THEN /\ tResult' = Failure("callback")
                    /\ UNCHANGED progressLog
               ELSE /\ tResult' = [raised |-> FALSE, success |-> TRUE, error |-> "none",
                                   translatedPages |-> Len(translatedChunks),
                                   hasBook |-> TRUE]
                    /\ progressLog' =
                          Append(progressLog, [current |-> Len(translatedChunks),
                                               total |-> Len(translatedChunks)])
       \/ /\ UNCHANGED <<dbBooks, dbChunks, progressLog>>
          /\ tResult' = Failure("Failed to save translated book to database")
       \/ \E k \in 0..(Len(translatedBook.chunks) - 1) :
            /\ dbBooks' = dbBooks \cup {translatedBook.id}
            /\ dbChunks' = PutChunks(dbChunks, translatedBook, k)
            /\ tResult' = Failure("Failed to save translated book to database")
            /\ UNCHANGED progressLog
    /\ tpc' = "done"
    /\ UNCHANGED otherThanTr
    /\ UNCHANGED <<tBook, tOpts, cbFaulty, batchSize, maxConcurrentTranslations,
                   batches, batchIndex, maxConcurrent, activeBatches, bstatus, bstart,
                   boutcome, processedChunks, translatedChunks, allEmbeddings, decrements, embedI, translatedBook>>

TrNext ==
    \/ TranslateBookCall
    \/ StartBatch
    \/ WaitForSlot
    \/ \E b \in 1..MaxChunks : CompleteBatch(b)
    \/ JoinBatches
    \/ EmbedStep
    \/ PdfStep
    \/ SaveStep

(***************************************************************************)
(* The RAG service: pure parts.                                            *)
(***************************************************************************)
\* similaritySearch's relevance threshold 0.3, in hundredths
SimFloor == 30
\* the k multiQueryRetrieval passes to similaritySearch
SearchK == 5
\* queries kept from the model's output: slice(0, 3)
MaxGeneratedQueries == 3
\* searchChatHistory: MAX_MESSAGES
MAX_MESSAGES == 80
\* searchChatHistory's threshold 0.25, in hundredths
ChatSimFloor == 25
\* keyword fallback: 1 for a content match, 0.05 for a user message, in hundredths
KeywordMatchScore == 100
UserRoleScore == 5

\* xs.sort((a, b) => b.score - a.score).slice(0, k).  The sort is stable and
\* descending: an element goes after those with a higher score and after
\* the earlier ones with its score.
TopByScoreDesc(xs, k) ==
    LET n == Len(xs)
        rank(i) == 1 + Cardinality({j \in 1..n :
                                       \/ xs[j].score > xs[i].score
                                       \/ xs[j].score = xs[i].score /\ j < i})
    IN  [r \in 1..Min(k, n) |-> xs[CHOOSE i \in 1..n : rank(i) = r]]

\* a search that also keeps the documents at the threshold
SimilaritySearchAtFloor(documents, sims, k) ==
    LET scored == [i \in 1..Len(documents) |-> [score |-> sims[i], document |-> documents[i]]]
        top    == TopByScoreDesc(scored, k)
        kept   == SelectSeq(top, LAMBDA x : x.score >= SimFloor)
    IN  [i \in 1..Len(kept) |-> kept[i].document]

\* InMemoryVectorStore.similaritySearch given the cosine similarity of the
\* query with each stored document (sims[i], in hundredths)
SimilaritySearch(documents, sims, k) ==
    LET scored == [i \in 1..Len(documents) |-> [score |-> sims[i], document |-> documents[i]]]
        top    == TopByScoreDesc(scored, k)
        kept   == SelectSeq(top, LAMBDA x : x.score > SimFloor)
    IN  [i \in 1..Len(kept) |-> kept[i].document]

\* what the selection model call yields: it throws, or returns text that is
\* no JSON, or JSON for null, for a non-object value, or for an object whose
\* fields each are true, false, of another type, or missing
FieldValues == {"true", "false", "string", "number", "null", "missing"}

RawSelections ==
    {[kind |-> k, useBook |-> "missing", useChat |-> "missing", reason |-> "missing"] :
        k \in {"throw", "malformed", "null", "primitive"}}
    \cup {[kind |-> "object", useBook |-> b, useChat |-> c, reason |-> r] :
            b \in FieldValues, c \in FieldValues, r \in {"string", "number", "missing"}}

\* decideRetrievalSources that trusts the parsed fields without typeof checks
DecideWithoutTypeCheck(raw) ==
    IF raw.kind \in {"throw", "malformed", "null"}
    THEN [raised |-> FALSE, useBook |-> TRUE, useChat |-> FALSE, reason |-> "fallback-default"]
    ELSE [raised |-> FALSE,
          useBook |-> IF raw.kind = "object" THEN raw.useBook = "true" ELSE FALSE,
          useChat |-> IF raw.kind = "object" THEN raw.useChat = "true" ELSE FALSE,
          reason |-> "defaulted"]

\* decideRetrievalSources on the outcome of its model call
DecideRetrievalSources(raw) ==
    IF raw.kind \in {"throw", "malformed", "null"}
    THEN \* chain.invoke or JSON.parse threw, or parsed is null and reading
         \* parsed.useBook threw: the catch block
         [raised |-> FALSE, useBook |-> TRUE, useChat |-> FALSE, reason |-> "fallback-default"]
    ELSE [raised |-> FALSE,
          useBook |-> IF raw.useBook \in {"true", "false"} THEN raw.useBook = "true" ELSE TRUE,
          useChat |-> IF raw.useChat \in {"true", "false"} THEN raw.useChat = "true" ELSE FALSE,
          reason |-> IF raw.reason = "string" THEN "given" ELSE "defaulted"]

\* the window without the offset: idx counts from the start of the slice
WindowedWithoutOffset(chatHistory) ==
    LET start == Max(0, Len(chatHistory) - MAX_MESSAGES)
    IN  [i \in 1..(Len(chatHistory) - start) |->
            [idx |-> i - 1,
             role |-> chatHistory[start + i].role,
             content |-> chatHistory[start + i].content]]

\* chatHistory.slice(start).map((m, i) => ({idx: start + i, ...})), with idx
\* the 0-based position in the full history
Windowed(chatHistory) ==
    LET start == Max(0, Len(chatHistory) - MAX_MESSAGES)
    IN  [i \in 1..(Len(chatHistory) - start) |->
            [idx |-> start + (i - 1),
             role |-> chatHistory[start + i].role,
             content |-> chatHistory[start + i].content]]

\* m.content.toLowerCase().includes(query.toLowerCase()): a message's content
\* records whether it contains the query, case-insensitively
ContainsQuery(content) == content.mentions

\* searchChatHistory(chatHistory, query, k): embedDocsOk / embedQueryOk say
\* whether the two embedding calls succeed, sims[p] is the cosine similarity
\* (in hundredths) of the query with the message at 1-based position p
SearchChatHistory(chatHistory, k, embedDocsOk, embedQueryOk, sims) ==
    LET windowed == Windowed(chatHistory)
        snippet(m) == [index |-> m.idx, role |-> m.role, content |-> m.content]
    IN  IF Len(chatHistory) = 0 THEN [raised |-> FALSE, snippets |-> <<>>]
        ELSE IF ~embedDocsOk
        THEN LET scored == [i \in 1..Len(windowed) |->
                              [m |-> windowed[i],
                               score |-> (IF ContainsQuery(windowed[i].content)
                                          THEN KeywordMatchScore ELSE 0)
                                       + (IF windowed[i].role = "user"
                                          THEN UserRoleScore ELSE 0)]]
                 kept == TopByScoreDesc(SelectSeq(scored, LAMBDA x : x.score > 0), k)
             IN  [raised |-> FALSE,
                  snippets |-> [i \in 1..Len(kept) |-> snippet(kept[i].m)]]
        ELSE IF ~embedQueryOk
        THEN [raised |-> TRUE, snippets |-> <<>>]
        ELSE LET similarities == [i \in 1..Len(windowed) |->
                                    [m |-> windowed[i], score |-> sims[windowed[i].idx + 1]]]
                 top  == TopByScoreDesc(similarities, k)
                 kept == SelectSeq(top, LAMBDA x : x.score > ChatSimFloor)
             IN  [raised |-> FALSE,
                  snippets |-> [i \in 1..Len(kept) |-> snippet(kept[i].m)]]

\* doc.metadata.chunkId || doc.pageContent.substring(0, 50): ingestion numbers
\* the chunks from 0, and 0 is falsy
DedupKeyByTextOnly(doc) == [text |-> doc.prefix]

DedupKey(doc) ==
    IF doc.chunkId # 0 THEN [id |-> doc.chunkId] ELSE [text |-> doc.prefix]

\* docs.forEach(doc => allDocs.set(key, doc)) on a Map kept as the sequence
\* of its entries in insertion order: a present key keeps its place and
\* takes the new value
RECURSIVE MapSetAll(_, _)
MapSetAll(allDocs, docs) ==
    IF docs = <<>> THEN allDocs
    ELSE LET d == Head(docs)
             hit == {i \in 1..Len(allDocs) : allDocs[i].key = DedupKey(d)}
             nxt == IF hit = {}
                    THEN Append(allDocs, [key |-> DedupKey(d), doc |-> d])
                    ELSE [allDocs EXCEPT ![CHOOSE i \in hit : TRUE].doc = d]
         IN  MapSetAll(nxt, Tail(docs))

\* Array.from(allDocs.values())
MapValues(allDocs) == [i \in 1..Len(allDocs) |-> allDocs[i].doc]

(***************************************************************************)
(* The RAG orchestrator (generateAnswer): state.                           *)
(***************************************************************************)
\* largest number of chunks of the book asked about
MaxBookChunks == 2
\* largest chat history passed to generateAnswer
MaxHistory == 2
\* most non-blank lines the query-generation model returns
MaxGenLines == 1
\* most fragments of an answer stream
MaxRagFrags == 1
\* generateAnswer calls made one after the other
MaxRuns == 2

\* the chunks of a book as the vector store sees them: ingestion numbers
\* them from 0; the first two share their first 50 characters
RagChunks(n) ==
    [i \in 1..n |->
        [chunkId |-> i - 1, pageNumber |-> i,
         prefix |-> IF i <= 2 THEN "p" ELSE "q", text |-> i]]

\* a chat history: user and assistant alternate; each content records
\* whether it contains the query (here: the user's messages do)
HistoryOf(flags) ==
    [i \in 1..Len(flags) |->
        [role |-> IF i % 2 = 1 THEN "user" ELSE "assistant",
         content |-> [text |-> i, mentions |-> flags[i]]]]

\* the chat histories passed to generateAnswer
RagHistories == {HistoryOf([i \in 1..h |-> i % 2 = 1]) : h \in 0..MaxHistory}

\* no entry in the cache for the book id
NoStore == [present |-> FALSE, documents |-> <<>>, instance |-> 0]

NotFoundAnswer == <<"I couldn't find relevant information in the book">>

ApologyAnswer == <<"I encountered an error while processing your question">>

LocalizedApology == <<"apology rewritten in the question's language">>

NoRagResult ==
    [returned |-> FALSE, raised |-> FALSE, answer |-> <<>>, thoughts |-> <<>>,
     toolUses |-> <<>>, relevantChunks |-> <<>>, relevantChatMessages |-> <<>>]

\* the locals of a generateAnswer call at its first await, given the
\* collaborator calls it has started besides the selection
RunStartedWith(started) ==
    [pc |-> "select",
     thoughts |-> <<"Initialization">>,
     toolUses |-> <<>>,
     selection |-> [useBook |-> FALSE, useChat |-> FALSE],
     vectorStore |-> 0,
     queries |-> 0,
     qi |-> 0,
     allDocs |-> <<>>,
     retrieved |-> {},
     rehit |-> FALSE,
     relevantDocs |-> <<>>,
     chatSnippets |-> <<>>,
     answer |-> <<>>,
     frags |-> 0,
     streams |-> 0,
     failed |-> {},
     calls |-> started,
     rewrites |-> 0,
     atFailure |-> [thoughts |-> <<>>, toolUses |-> <<>>],
     result |-> NoRagResult,
     onThought |-> <<"Initialization">>,
     onToolUse |-> <<>>,
     onProgress |-> <<"Selecting tools for retrieval...">>,
     onToken |-> <<>>,
     onDone |-> 0]

\* a call that starts building the index while the selection is pending
NewRunPrefetching == RunStartedWith({"build"})

\* generateAnswer up to its first await: the Initialization thought is
\* recorded and the selection model call is made
NewRun == RunStartedWith({})

RagInit ==
    /\ rBook \in {[id |-> "book", chunks |-> RagChunks(n)] : n \in {0, MaxBookChunks}}
    /\ rHistory \in {[given |-> FALSE, messages |-> <<>>]}
                    \cup {[given |-> TRUE, messages |-> h] : h \in RagHistories}
    /\ bookVectorStores = [book |-> NoStore]
    /\ embedCalls = 0
    /\ embedded = 0
    /\ runs = 1
    /\ run = NewRun

(***************************************************************************)
(* The RAG orchestrator: the code between two awaits, as functions of the  *)
(* call's record.                                                          *)
(***************************************************************************)
\* the k generateAnswer passes to searchChatHistory
ChatK == 5

\* thoughts.push(t); callbacks?.onThought?.(t)
\* the thought is recorded and the caller is not told
ThinkSilently(r, stage) == [r EXCEPT !.thoughts = Append(@, stage)]

Think(r, stage) ==
    [r EXCEPT !.thoughts = Append(@, stage), !.onThought = Append(@, stage)]

\* toolUses.push(tool); callbacks?.onToolUse?.(tool)
UseTool(r, name) ==
    [r EXCEPT !.toolUses = Append(@, [toolName |-> name, done |-> FALSE]),
              !.onToolUse = Append(@, name)]

\* tool.output = ...; callbacks?.onToolUse?.({...tool, output}) for the tool
\* pushed last (of the output, only that it is set)
ToolOutput(r) ==
    [r EXCEPT !.toolUses[Len(r.toolUses)] = [@ EXCEPT !.done = TRUE],
              !.onToolUse = Append(@, r.toolUses[Len(r.toolUses)].toolName)]

\* callbacks?.onProgress?.(text)
Progress(r, text) == [r EXCEPT !.onProgress = Append(@, text)]

\* what the call had recorded when a collaborator call failed
Failed(r, what) ==
    [r EXCEPT !.failed = @ \cup {what},
              !.atFailure = [thoughts |-> r.thoughts, toolUses |-> r.toolUses]]

\* the failure leaves generateAnswer as a rejection
Rethrow(r, what) ==
    [Failed(r, what) EXCEPT !.pc = "done",
                            !.result = [NoRagResult EXCEPT !.returned = TRUE,
                                                           !.raised = TRUE]]

\* the catch block asking for the rewrite a second time
FailAskingTwice(r, what) ==
    [Think(Failed(r, what), "Error") EXCEPT !.pc = "apology", !.rewrites = @ + 2]

\* the catch block of generateAnswer up to its await: the Error thought is
\* recorded and the apology rewrite is requested
Fail(r, what) ==
    [Think(Failed(r, what), "Error") EXCEPT !.pc = "apology", !.rewrites = @ + 1]

\* chainOfThoughtReasoning up to the stream
StartReasoning(r) ==
    [Progress(UseTool(Think(r, "Reasoning"), "Answer Generation"),
              "Generating comprehensive answer...")
        EXCEPT !.streams = @ + 1, !.pc = "stream"]

\* the reflection goes on to the synthesis whatever was retrieved
ReflectThenSynthesize(r) == StartReasoning(Think(r, "Post-Retrieval Reflection"))

\* generateAnswer from the post-retrieval reflection on
Reflect(r) ==
    LET r1 == Think(r, "Post-Retrieval Reflection")
    IN  IF Len(r1.relevantDocs) = 0 /\ Len(r1.chatSnippets) = 0
        THEN LET r2 == Think(r1, "No Results")
             IN  [r2 EXCEPT !.pc = "done",
                            !.result = [returned |-> TRUE, raised |-> FALSE,
                                        answer |-> NotFoundAnswer,
                                        thoughts |-> r2.thoughts,
                                        toolUses |-> r2.toolUses,
                                        relevantChunks |-> <<>>,
                                        relevantChatMessages |-> <<>>]]
        ELSE StartReasoning(r1)

\* generateAnswer's chat-history step, or straight on to the reflection
\* the chat-history block entered whenever a history was supplied
ChatWheneverHistory(r, history) ==
    IF history.given /\ Len(history.messages) > 0
    THEN [UseTool(Progress(r, "Searching chat history for context..."),
                  "Chat History Search")
            EXCEPT !.calls = @ \cup {"chat"}, !.pc = "chat"]
    ELSE Reflect(r)

ChatOrReflect(r, history) ==
    IF r.selection.useChat /\ history.given /\ Len(history.messages) > 0
    THEN [UseTool(Progress(r, "Searching chat history for context..."),
                  "Chat History Search")
            EXCEPT !.calls = @ \cup {"chat"}, !.pc = "chat"]
    ELSE Reflect(r)

\* multiQueryRetrieval up to the query-generation call
MultiQueryPrologue(r) ==
    [Progress(UseTool(Think(r, "Query Analysis"), "Query Generation"),
              "Generating search queries...")
        EXCEPT !.calls = @ \cup {"querygen"}, !.pc = "querygen"]

\* one turn of the search loop up to the similaritySearch call
StartSearch(r, i) ==
    [UseTool(Progress(r, "Searching"), "Vector Search")
        EXCEPT !.calls = @ \cup {"search"}, !.qi = i, !.pc = "search"]

\* the cache is never consulted
NeverHasStore(stores) == FALSE

\* bookVectorStores.has(book.id)
HasStore(stores) == stores.book.present

\* the Document list getOrCreateVectorStore builds from the book's chunks
DocumentsOf(book) == book.chunks

(***************************************************************************)
(* The RAG orchestrator: operations (each from one await to the next).     *)
(***************************************************************************)
\* the selection settles; then the vector store is fetched from the cache
\* or its build is started, or the book path is skipped
RSelected ==
    /\ run.pc = "select"
    /\ \E raw \in RawSelections :
          LET sel == DecideRetrievalSources(raw)
              r1  == [ToolOutput(UseTool(run, "Tool Selection"))
                        EXCEPT !.selection = [useBook |-> sel.useBook,
                                              useChat |-> sel.useChat],
                               !.calls = @ \cup {"selection"},
                               !.failed = IF raw.kind = "throw"
                                          THEN @ \cup {"selection"} ELSE @,
                               !.onToolUse = Append(run.onToolUse, "Tool Selection")]
          IN  IF sel.useBook
              THEN IF HasStore(bookVectorStores)
                   THEN /\ run' = MultiQueryPrologue(
                                     [Progress(r1, "Preparing vector database...")
                                        EXCEPT !.vectorStore = bookVectorStores.book.instance])
                        /\ UNCHANGED embedCalls
                   ELSE /\ run' = [Progress(Progress(r1, "Preparing vector database..."),
                                            "Initializing vector store...")
                                     EXCEPT !.calls = @ \cup {"build"}, !.pc = "build"]
                        /\ embedCalls' = embedCalls + 1
              ELSE /\ run' = ChatOrReflect(r1, rHistory)
                   /\ UNCHANGED embedCalls
    /\ UNCHANGED otherThanRag
    /\ UNCHANGED <<rBook, rHistory, bookVectorStores, embedded, runs>>

\* a getOrCreateVectorStore that caches the store before its documents are
\* embedded, so that a failed build leaves an empty store in the cache
RBuiltCachingFirst ==
    /\ run.pc = "build"
    /\ \/ /\ bookVectorStores' =
                [bookVectorStores EXCEPT !.book =
                    [present |-> TRUE, documents |-> DocumentsOf(rBook),
                     instance |-> embedCalls]]
          /\ embedded' = embedded + 1
          /\ run' = MultiQueryPrologue([run EXCEPT !.vectorStore = embedCalls])
       \/ /\ run' = Fail(run, "build")
          /\ bookVectorStores' =
                [bookVectorStores EXCEPT !.book =
                    [present |-> TRUE, documents |-> <<>>, instance |-> embedCalls]]
          /\ UNCHANGED embedded
    /\ UNCHANGED otherThanRag
    /\ UNCHANGED <<rBook, rHistory, embedCalls, runs>>

\* vectorStore.addDocuments settles: the store is cached and retrieval
\* starts, or embedding the chunks threw
RBuilt ==
    /\ run.pc = "build"
    /\ \/ /\ bookVectorStores' =
                [bookVectorStores EXCEPT !.book =
                    [present |-> TRUE, documents |-> DocumentsOf(rBook),
                     instance |-> embedCalls]]
          /\ embedded' = embedded + 1
          /\ run' = MultiQueryPrologue([run EXCEPT !.vectorStore = embedCalls])
       \/ /\ run' = Fail(run, "build")
          /\ UNCHANGED <<bookVectorStores, embedded>>
    /\ UNCHANGED otherThanRag
    /\ UNCHANGED <<rBook, rHistory, embedCalls, runs>>

\* the query-generation call settles: the queries are the original one and
\* at most three of the model's lines; the first search is started
RQueriesGenerated ==
    /\ run.pc = "querygen"
    /\ \/ \E lines \in 0..MaxGenLines :
            LET n  == 1 + Min(lines, MaxGeneratedQueries)
                r1 == Think(ToolOutput([run EXCEPT !.queries = n]), "Search Strategy")
            IN  run' = StartSearch(r1, 1)
       \/ run' = Fail(run, "querygen")
    /\ UNCHANGED otherThanRag
    /\ UNCHANGED <<rBook, rHistory, bookVectorStores, embedCalls, embedded, runs>>

\* the similarities of a query with the stored documents
SimLevels == {SimFloor, SimFloor + 1}

\* one similaritySearch settles: its documents go into the map; then the
\* next query is searched, or retrieval is complete
RSearched ==
    /\ run.pc = "search"
    /\ LET documents == bookVectorStores.book.documents
       IN  \/ \E sims \in [1..Len(documents) -> SimLevels] :
                LET docs == SimilaritySearch(documents, sims, SearchK)
                    r1   == [ToolOutput(run)
                               EXCEPT !.allDocs = MapSetAll(@, docs),
                                      !.rehit = @ \/ \E i \in 1..Len(docs) :
                                                         docs[i] \in run.retrieved,
                                      !.retrieved = @ \cup {docs[i] : i \in 1..Len(docs)}]
                IN  IF run.qi < run.queries
                    THEN run' = StartSearch(r1, run.qi + 1)
                    ELSE run' = ChatOrReflect(
                                   Think([r1 EXCEPT !.relevantDocs = MapValues(r1.allDocs)],
                                         "Retrieval Complete"),
                                   rHistory)
           \/ /\ Len(documents) > 0
              /\ run' = Fail(run, "search")
    /\ UNCHANGED otherThanRag
    /\ UNCHANGED <<rBook, rHistory, bookVectorStores, embedCalls, embedded, runs>>

\* the similarities of the query with the messages of the history
ChatSimLevels == {ChatSimFloor, ChatSimFloor + 1}

\* searchChatHistory settles
RChatSearched ==
    /\ run.pc = "chat"
    /\ \E docsOk \in BOOLEAN, queryOk \in BOOLEAN,
          sims \in [1..Len(rHistory.messages) -> ChatSimLevels] :
          LET res == SearchChatHistory(rHistory.messages, ChatK, docsOk, queryOk, sims)
              r0  == [run EXCEPT !.failed = IF docsOk THEN @ ELSE @ \cup {"chatDocs"}]
          IN  IF res.raised
              THEN run' = Fail(r0, "chatQuery")
              ELSE run' = Reflect(
                             Think(ToolOutput([r0 EXCEPT !.chatSnippets = res.snippets]),
                                   "Chat Context"))
    /\ UNCHANGED otherThanRag
    /\ UNCHANGED <<rBook, rHistory, bookVectorStores, embedCalls, embedded, runs>>

\* the fragments an answer stream yields
RagFragments == {<<"a">>}

\* for await (const chunk of stream): answer += delta; onToken(delta)
RStreamFragment ==
    /\ run.pc = "stream"
    /\ run.frags < MaxRagFrags
    /\ \E f \in RagFragments :
          run' = [run EXCEPT !.answer = @ \o f, !.onToken = Append(@, f),
                             !.frags = @ + 1]
    /\ UNCHANGED otherThanRag
    /\ UNCHANGED <<rBook, rHistory, bookVectorStores, embedCalls, embedded, runs>>

\* the stream ends: onDone, the tool's output, the closing thoughts, and
\* generateAnswer returns the result
RStreamEnd ==
    /\ run.pc = "stream"
    /\ LET r1 == Think(Think(ToolOutput([run EXCEPT !.onDone = @ + 1]),
                             "Answer Generated"),
                       "Complete")
       IN  run' = [r1 EXCEPT !.pc = "done",
                             !.result = [returned |-> TRUE, raised |-> FALSE,
                                         answer |-> r1.answer,
                                         thoughts |-> r1.thoughts,
                                         toolUses |-> r1.toolUses,
                                         relevantChunks |-> r1.relevantDocs,
                                         relevantChatMessages |-> r1.chatSnippets]]
    /\ UNCHANGED otherThanRag
    /\ UNCHANGED <<rBook, rHistory, bookVectorStores, embedCalls, embedded, runs>>

\* opening the stream, or reading its next fragment, throws
RStreamFailed ==
    /\ run.pc = "stream"
    /\ run' = Fail(run, "stream")
    /\ UNCHANGED otherThanRag
    /\ UNCHANGED <<rBook, rHistory, bookVectorStores, embedCalls, embedded, runs>>

\* the apology rewrite settles (a failure leaves the fixed text) and
\* generateAnswer returns
RApology ==
    /\ run.pc = "apology"
    /\ \E ok \in BOOLEAN :
          run' = [run EXCEPT !.pc = "done",
                             !.failed = IF ok THEN @ ELSE @ \cup {"apology"},
                             !.result = [returned |-> TRUE, raised |-> FALSE,
                                         answer |-> IF ok THEN LocalizedApology
                                                    ELSE ApologyAnswer,
                                         thoughts |-> run.thoughts,
                                         toolUses |-> run.toolUses,
                                         relevantChunks |-> <<>>,
                                         relevantChatMessages |-> <<>>]]
    /\ UNCHANGED otherThanRag
    /\ UNCHANGED <<rBook, rHistory, bookVectorStores, embedCalls, embedded, runs>>

\* the caller asks again about the same book
RNextCall ==
    /\ run.pc = "done"
    /\ runs < MaxRuns
    /\ run' = NewRun
    /\ runs' = runs + 1
    /\ UNCHANGED otherThanRag
    /\ UNCHANGED <<rBook, rHistory, bookVectorStores, embedCalls, embedded>>

RagNext ==
    \/ RSelected
    \/ RBuilt
    \/ RQueriesGenerated
    \/ RSearched
    \/ RChatSearched
    \/ RStreamFragment
    \/ RStreamEnd
    \/ RStreamFailed
    \/ RApology
    \/ RNextCall

(***************************************************************************)
(* The Answer Synthesizer's loop over the answer stream                    *)
(* (chainOfThoughtReasoning with delta normalization).  A text is the      *)
(* sequence of its characters.                                             *)
(***************************************************************************)
\* longest fragment a provider yields
MaxFragLen == 3
\* most fragments of a stream
MaxFrags == 3

Alphabet == {"a", "b"}

\* the fragments a provider can yield
Fragments == UNION {[1..n -> Alphabet] : n \in 0..MaxFragLen}

\* s.startsWith(p)
StartsWith(s, p) == Len(p) <= Len(s) /\ SubSeq(s, 1, Len(p)) = p

\* s.slice(i)
SliceFrom(s, i) == SubSeq(s, i + 1, Len(s))

\* while (i < minLen && next.charCodeAt(i) === accumulated.charCodeAt(i)) i++
CommonPrefixLen(next, accumulated) ==
    LET minLen == Min(Len(next), Len(accumulated))
        same(i) == \A j \in 1..i : next[j] = accumulated[j]
    IN  CHOOSE i \in 0..minLen : same(i) /\ (i < minLen => ~same(i + 1))

\* every fragment is taken to be new text
RawDelta(accumulated, next) == next

\* the new text of a fragment given the fragment before it
Delta(accumulated, next) ==
    IF StartsWith(next, accumulated) THEN SliceFrom(next, Len(accumulated))
    ELSE IF StartsWith(accumulated, next) THEN <<>>
    ELSE SliceFrom(next, CommonPrefixLen(next, accumulated))

\* the stream is opened
StreamInit ==
    stream = [pc |-> "read", fragments |-> <<>>, accumulated |-> <<>>,
              answer |-> <<>>, onToken |-> <<>>, onDone |-> 0, returned |-> <<>>]

\* onDone is called with every fragment as well
ReadFragmentThenDone(st, next) ==
    LET delta == Delta(st.accumulated, next)
    IN  [st EXCEPT !.fragments = Append(@, next),
                   !.accumulated = next,
                   !.answer = IF delta # <<>> THEN @ \o delta ELSE @,
                   !.onToken = IF delta # <<>> THEN Append(@, delta) ELSE @,
                   !.onDone = @ + 1]

\* the answer is set to the fragment instead of growing by the delta
ReadFragmentAnswerIsLast(st, next) ==
    LET delta == Delta(st.accumulated, next)
    IN  [st EXCEPT !.fragments = Append(@, next),
                   !.accumulated = next,
                   !.answer = next,
                   !.onToken = IF delta # <<>> THEN Append(@, delta) ELSE @]

\* one turn of for await (const chunk of stream) on the loop's variables
ReadFragment(st, next) ==
    LET delta == Delta(st.accumulated, next)
    IN  [st EXCEPT !.fragments = Append(@, next),
                   !.accumulated = next,
                   !.answer = IF delta # <<>> THEN @ \o delta ELSE @,
                   !.onToken = IF delta # <<>> THEN Append(@, delta) ELSE @]

\* the provider yields a fragment
StreamFragment ==
    /\ stream.pc = "read"
    /\ Len(stream.fragments) < MaxFrags
    /\ \E next \in Fragments : stream' = ReadFragment(stream, next)
    /\ UNCHANGED otherThanStream

\* the stream ends: onDone, and the answer is returned
StreamEnd ==
    /\ stream.pc = "read"
    /\ stream' = [stream EXCEPT
                    !.pc = "done",
                    !.onDone = @ + 1,
                    !.returned = IF stream.answer = <<>> /\ stream.accumulated # <<>>
                                 THEN stream.accumulated ELSE stream.answer]
    /\ UNCHANGED otherThanStream

\* reading the stream throws: the loop is left, nothing is returned
StreamFailed ==
    /\ stream.pc = "read"
    /\ stream' = [stream EXCEPT !.pc = "failed"]
    /\ UNCHANGED otherThanStream

StreamNext ==
    \/ StreamFragment
    \/ StreamEnd
    \/ StreamFailed

(***************************************************************************)
(* decideRetrievalSources and searchChatHistory as calls.                  *)
(***************************************************************************)
\* decideRetrievalSources is called; its model call will yield raw
DecisionInit ==
    decision \in {[pc |-> "call", raw |-> raw,
                   out |-> [raised |-> FALSE, useBook |-> FALSE, useChat |-> FALSE,
                            reason |-> "none"]] : raw \in RawSelections}

\* decideRetrievalSources settles
DecisionReturn ==
    /\ decision.pc = "call"
    /\ decision' = [decision EXCEPT !.pc = "done",
                                    !.out = DecideRetrievalSources(decision.raw)]
    /\ UNCHANGED otherThanDecision

DecisionNext == DecisionReturn

\* messages beyond MAX_MESSAGES in the longest history
MaxExtra == 2
\* largest k asked of searchChatHistory
MaxK == 2

\* the lengths of the histories searched
ChatLengths == {0, 1, 2} \cup {MAX_MESSAGES + d : d \in 0..MaxExtra}

\* the positions (1-based) where a history may hold a message about the
\* query: its ends and the two sides of the window's edge
Probes(len) == {1, len - MAX_MESSAGES, len - MAX_MESSAGES + 1, len} \cap (1..len)

\* a history of len messages whose messages at the positions in hot contain
\* the query
ChatHistoryOf(len, hot) == HistoryOf([i \in 1..len |-> i \in hot])

\* the cosine similarities (in hundredths) of the query with the messages:
\* above the threshold at the hot positions, rising or falling along the
\* history, at the threshold elsewhere
ChatSims(len, hot, rising) ==
    [p \in 1..len |->
        IF p \in hot
        THEN ChatSimFloor + (IF rising THEN p ELSE len + 1 - p)
        ELSE ChatSimFloor]

\* searchChatHistory is called
ChatInit ==
    chat \in {[pc |-> "call", chatHistory |-> ChatHistoryOf(len, hot), k |-> k,
               embedDocsOk |-> docsOk, embedQueryOk |-> queryOk,
               sims |-> ChatSims(len, hot, rising),
               result |-> [raised |-> FALSE, snippets |-> <<>>]] :
                 len \in ChatLengths, hot \in SUBSET Probes(MAX_MESSAGES + MaxExtra),
                 k \in 1..MaxK, docsOk \in BOOLEAN, queryOk \in BOOLEAN,
                 rising \in BOOLEAN}

\* searchChatHistory settles
ChatReturn ==
    /\ chat.pc = "call"
    /\ chat' = [chat EXCEPT
                  !.pc = "done",
                  !.result = SearchChatHistory(chat.chatHistory, chat.k,
                                               chat.embedDocsOk, chat.embedQueryOk,
                                               chat.sims)]
    /\ UNCHANGED otherThanChat

ChatNext == ChatReturn

(***************************************************************************)
(* InMemoryVectorStore.similaritySearch as a call.                         *)
(***************************************************************************)
\* most documents in the store searched
MaxDocs == 3
\* largest k asked of similaritySearch
MaxSearchK == 2

\* the similarities (in hundredths) a stored document may have with the
\* query: below, at and above the threshold
SearchSimLevels == {SimFloor - 1, SimFloor, SimFloor + 1, SimFloor + 2}

\* similaritySearch is called on a store of n documents
SearchInit ==
    search \in {[pc |-> "call", documents |-> RagChunks(n), sims |-> sims, k |-> k,
                 out |-> <<>>] :
                   n \in 0..MaxDocs, sims \in UNION {[1..m -> SearchSimLevels] : m \in 0..MaxDocs},
                   k \in 0..MaxSearchK}
    /\ Len(search.sims) = Len(search.documents)

\* similaritySearch settles
SearchReturn ==
    /\ search.pc = "call"
    /\ search' = [search EXCEPT
                    !.pc = "done",
                    !.out = SimilaritySearch(search.documents, search.sims, search.k)]
    /\ UNCHANGED otherThanSearch

SearchNext == SearchReturn

(***************************************************************************)
(* getOrCreateVectorStore under overlapping callers: each caller runs the  *)
(* function up to its await, and resumes when addDocuments settles.        *)
(***************************************************************************)
MaxCallers == 2
MaxGetCalls == 2

\* the document ids the callers ask for
StoreBooks == {"b1", "b2"}

\* bookVectorStores is empty, no store was created, nothing was embedded,
\* and every caller has chosen the document of its first call
StoreInit ==
    \E bs \in [1..MaxCallers -> StoreBooks] :
        getters = [callers   |-> [c \in 1..MaxCallers |->
                                    [pc |-> "ready", book |-> bs[c], mine |-> 0,
                                     got |-> 0, calls |-> 0]],
                   cache     |-> [b \in StoreBooks |-> 0],
                   instances |-> 0,
                   made      |-> [b \in StoreBooks |-> 0],
                   embeds    |-> [b \in StoreBooks |-> 0]]

\* if (bookVectorStores.has(book.id))
Cached(cache, book) == cache[book] # 0

\* a caller enters getOrCreateVectorStore: a cached store is returned at
\* once; otherwise a new store is constructed and addDocuments starts
\* embedding the chunks, and the caller waits
GetOrCreateCall(c) ==
    /\ getters.callers[c].pc = "ready"
    /\ getters.callers[c].calls < MaxGetCalls
    /\ LET b == getters.callers[c].book
       IN  IF Cached(getters.cache, b)
           THEN getters' = [getters EXCEPT
                              !.callers[c].pc = "returned",
                              !.callers[c].got = getters.cache[b],
                              !.callers[c].calls = @ + 1]
           ELSE getters' = [getters EXCEPT
                              !.callers[c].pc = "embedding",
                              !.callers[c].mine = getters.instances + 1,
                              !.callers[c].calls = @ + 1,
                              !.instances = @ + 1,
                              !.made[b] = @ + 1,
                              !.embeds[b] = @ + 1]
    /\ UNCHANGED otherThanStore

\* addDocuments settles for a waiting caller: the caller's store is put in
\* the map under the document id (replacing what is there) and returned; or
\* the embedding call rejected and the caller's call rejects
GetOrCreateBuilt(c) ==
    /\ getters.callers[c].pc = "embedding"
    /\ LET b == getters.callers[c].book
       IN  \E ok \in BOOLEAN :
             getters' = IF ok
                        THEN [getters EXCEPT
                                !.callers[c].pc = "returned",
                                !.callers[c].got = getters.callers[c].mine,
                                !.cache[b] = getters.callers[c].mine]
                        ELSE [getters EXCEPT !.callers[c].pc = "failed"]
    /\ UNCHANGED otherThanStore

\* a caller whose call has settled asks again, for a document of its choice
GetOrCreateAgain(c) ==
    /\ getters.callers[c].pc \in {"returned", "failed"}
    /\ getters.callers[c].calls < MaxGetCalls
    /\ \E b \in StoreBooks :
          getters' = [getters EXCEPT !.callers[c].pc = "ready",
                                     !.callers[c].book = b,
                                     !.callers[c].mine = 0,
                                     !.callers[c].got = 0]
    /\ UNCHANGED otherThanStore

StoreNext ==
    \E c \in 1..MaxCallers :
        \/ GetOrCreateCall(c)
        \/ GetOrCreateBuilt(c)
        \/ GetOrCreateAgain(c)

(***************************************************************************)
(* The Reader: handleSendMessage and handleResendEdited around one         *)
(* generateAnswer call, whose callbacks write into the thread's messages.  *)
(***************************************************************************)
MaxTurns == 1
MaxReaderTokens == 2

ReaderQuestions == {<<"q1">>, <<"q2">>}

ReaderTokens == {"a", "b"}

\* { role: 'assistant', content: '', thoughts: [], toolUses: [] }
Placeholder == [role |-> "assistant", content |-> <<>>, meta |-> "streaming"]

UserMessage(text) == [role |-> "user", content |-> text, meta |-> "none"]

\* a thread with n earlier exchanges
ThreadOf(n) ==
    [i \in 1..(2 * n) |->
        IF i % 2 = 1 THEN UserMessage(<<"q0">>)
        ELSE [role |-> "assistant", content |-> <<"a">>, meta |-> "final"]]

\* a mounted Reader at rest: with or without an active thread, the thread
\* holding 0..MaxTurns exchanges, no message or one user message under edit
ReaderInit ==
    \E active \in BOOLEAN, n \in 0..MaxTurns :
      \E edit \in {-1} \cup {i \in 0..(2 * n - 1) : i % 2 = 0} :
        reader = [pc |-> "ready", activeThread |-> active, messages |-> ThreadOf(n),
                  editingIndex |-> edit, request |-> "none", created |-> 0,
                  phase |-> "none", answer |-> <<>>,
                  result |-> [returned |-> FALSE, answer |-> <<>>]]

\* handleSendMessage up to its await: the user message and the assistant
\* placeholder are appended to the active thread
HandleSendMessage ==
    /\ reader.pc = "ready"
    /\ \E message \in ReaderQuestions :
          IF ~reader.activeThread
          THEN reader' = [reader EXCEPT !.pc = "settled", !.request = "send"]
          ELSE reader' = [reader EXCEPT
                            !.pc = "awaiting", !.request = "send",
                            !.messages = reader.messages
                                            \o <<UserMessage(message), Placeholder>>,
                            !.created = Len(reader.messages) + 2,
                            !.phase = "retrieval"]
    /\ UNCHANGED otherThanReader

\* handleResendEdited up to its await: the edited user message is replaced,
\* the conversation after it is dropped and the placeholder appended
HandleResendEdited ==
    /\ reader.pc = "ready"
    /\ \E newMessage \in ReaderQuestions :
          IF ~reader.activeThread \/ reader.editingIndex < 0
          THEN reader' = [reader EXCEPT !.pc = "settled", !.request = "resend"]
          ELSE LET at      == reader.editingIndex + 1
                   msgs    == IF reader.messages[at].role = "user"
                              THEN [reader.messages EXCEPT ![at] = UserMessage(newMessage)]
                              ELSE reader.messages
                   trimmed == Slice(msgs, 0, reader.editingIndex + 1)
               IN  reader' = [reader EXCEPT
                                !.pc = "awaiting", !.request = "resend",
                                !.messages = Append(trimmed, Placeholder),
                                !.created = Len(trimmed) + 1,
                                !.editingIndex = -1,
                                !.phase = "retrieval"]
    /\ UNCHANGED otherThanReader

\* onToken: the token is appended to the content of the last message of the
\* thread when that message is an assistant message
OnToken(msgs, token) ==
    IF Len(msgs) >= 1 /\ msgs[Len(msgs)].role = "assistant"
    THEN [msgs EXCEPT ![Len(msgs)].content = @ \o <<token>>]
    ELSE msgs

\* generateAnswer streams one fragment: answer += delta; onToken(delta)
ReaderToken ==
    /\ reader.pc = "awaiting"
    /\ Len(reader.answer) < MaxReaderTokens
    /\ \E token \in ReaderTokens :
          reader' = [reader EXCEPT !.phase = "stream",
                                   !.answer = @ \o <<token>>,
                                   !.messages = OnToken(reader.messages, token)]
    /\ UNCHANGED otherThanReader

\* after the await: thoughts and toolUses of the last assistant message are
\* set from the result; its content is what was streamed
Finalize(msgs, result) ==
    IF Len(msgs) >= 1 /\ msgs[Len(msgs)].role = "assistant"
    THEN [msgs EXCEPT ![Len(msgs)].meta = "final"]
    ELSE msgs

\* generateAnswer returns and the handler finishes: the fixed not-found
\* answer before any streaming, the accumulated answer when the stream has
\* ended, or the apology when a step failed (streaming included)
ReaderReturn ==
    /\ reader.pc = "awaiting"
    /\ \E answer \in (IF reader.phase = "retrieval" THEN {NotFoundAnswer} ELSE {})
                     \cup {reader.answer, ApologyAnswer, LocalizedApology} :
          LET result == [returned |-> TRUE, answer |-> answer]
          IN  reader' = [reader EXCEPT !.pc = "settled",
                                       !.result = result,
                                       !.messages = Finalize(reader.messages, result)]
    /\ UNCHANGED otherThanReader

ReaderNext ==
    \/ HandleSendMessage
    \/ HandleResendEdited
    \/ ReaderToken
    \/ ReaderReturn

(***************************************************************************)
(* Two translateBook invocations on the one exported translationService.   *)
(* batchSize and maxConcurrentTranslations are fields of the service; the  *)
(* batches, the counters and the output array are locals of an invocation. *)
(* An invocation runs without interruption up to its next await.           *)
(***************************************************************************)
MaxPairChunks == 3

Invocations == {1, 2}

\* the options of an invocation: both values given explicitly
PairOptions == [batchSize : 1..MaxBatchSize, maxWorkers : 1..MaxWorkers]

\* a chunk list of n chunks, each named by its position
PairChunks(n) == [k \in 1..n |-> k]

NotCalled(opts, n) ==
    [pc |-> "ready", opts |-> opts, n |-> n, batches |-> <<>>, partitionedBy |-> 0,
     batchIndex |-> 0, activeBatches |-> 0, maxConcurrent |-> 0,
     bstatus |-> <<>>, bstart |-> <<>>, out |-> <<>>]

\* the service as constructed, and two callers about to call translateBook
PairInit ==
    \E o1 \in PairOptions, o2 \in PairOptions, n1 \in 1..MaxPairChunks,
       n2 \in 1..MaxPairChunks :
        pair = [pc |-> "run",
                batchSize |-> DefaultBatchSize,
                maxConcurrentTranslations |-> DefaultMaxWorkers,
                running |-> 0,
                inv |-> <<NotCalled(o1, n1), NotCalled(o2, n2)>>]

\* where the for loop of an invocation goes after a step: on through the
\* next iteration, into the poll's await, or into Promise.all
AfterStart(i, inv) ==
    IF inv.batchIndex >= Len(inv.batches) THEN [pc |-> "join", running |-> 0]
    ELSE IF SlotFree(inv.activeBatches, inv.maxConcurrent)
         THEN [pc |-> "loop", running |-> i]
         ELSE [pc |-> "loop", running |-> 0]

\* translateBook is called: the options are written to the service, and
\* translateChunksParallel partitions the chunks by this.batchSize, allocates
\* the output and reads this.maxConcurrentTranslations
PairCall(i) ==
    /\ pair.pc = "run"
    /\ pair.running = 0
    /\ pair.inv[i].pc = "ready"
    /\ LET me  == pair.inv[i]
           bs  == IF me.opts.batchSize # 0 THEN me.opts.batchSize ELSE pair.batchSize
           mw  == IF me.opts.maxWorkers # 0 THEN me.opts.maxWorkers
                  ELSE pair.maxConcurrentTranslations
           bat == Partition(PairChunks(me.n), bs)
           now == [me EXCEPT !.batches = bat, !.partitionedBy = bs,
                             !.maxConcurrent = mw,
                             !.bstatus = [b \in 1..Len(bat) |-> "queued"],
                             !.bstart = [b \in 1..Len(bat) |-> 0],
                             !.out = [k \in 1..me.n |-> Hole]]
           go  == AfterStart(i, now)
       IN  pair' = [pair EXCEPT !.batchSize = bs,
                                !.maxConcurrentTranslations = mw,
                                !.running = go.running,
                                !.inv[i] = [now EXCEPT !.pc = go.pc]]
    /\ UNCHANGED otherThanPair

\* const startIdx = batchIndex * this.batchSize
StartIdx(index, thisBatchSize) == index * thisBatchSize

\* one turn of the for loop past its while, in the invocation that is running
\* or that the poll timer resumes
PairStartBatch(i) ==
    /\ pair.pc = "run"
    /\ pair.running \in {0, i}
    /\ pair.inv[i].pc = "loop"
    /\ LET me == pair.inv[i]
       IN  /\ me.batchIndex < Len(me.batches)
           /\ SlotFree(me.activeBatches, me.maxConcurrent)
           /\ LET now == [me EXCEPT
                            !.activeBatches = @ + 1,
                            !.bstatus[me.batchIndex + 1] = "inflight",
                            !.bstart[me.batchIndex + 1] =
                                StartIdx(me.batchIndex, pair.batchSize),
                            !.batchIndex = @ + 1]
                  go  == AfterStart(i, now)
              IN  pair' = [pair EXCEPT !.running = go.running,
                                       !.inv[i] = [now EXCEPT !.pc = go.pc]]
    /\ UNCHANGED otherThanPair

\* translatedChunks[startIdx + k] = the translation of the batch's k-th chunk
RECURSIVE PairWrite(_, _, _, _)
PairWrite(out, batch, startIdx, k) ==
    IF k > Len(batch) THEN out
    ELSE PairWrite(ArraySet(out, startIdx + (k - 1), batch[k]), batch, startIdx, k + 1)

\* the model call of a batch settles while no invocation is running: the
\* chunks are written from the batch's startIdx and the slot is released
PairComplete(i, b) ==
    /\ pair.pc = "run"
    /\ pair.running = 0
    /\ b \in DOMAIN pair.inv[i].bstatus
    /\ pair.inv[i].bstatus[b] = "inflight"
    /\ LET me == pair.inv[i]
       IN  pair' = [pair EXCEPT
                      !.inv[i] = [me EXCEPT
                                    !.bstatus[b] = "done",
                                    !.activeBatches = @ - 1,
                                    !.out = PairWrite(me.out, me.batches[b],
                                                      me.bstart[b], 1)]]
    /\ UNCHANGED otherThanPair

\* await Promise.all(batchPromises) resolves; translatedChunks is returned
PairJoin(i) ==
    /\ pair.pc = "run"
    /\ pair.running = 0
    /\ pair.inv[i].pc = "join"
    /\ \A b \in DOMAIN pair.inv[i].bstatus : pair.inv[i].bstatus[b] = "done"
    /\ pair' = [pair EXCEPT !.inv[i].pc = "returned"]
    /\ UNCHANGED otherThanPair

PairNext ==
    \E i \in Invocations :
        \/ PairCall(i)
        \/ PairStartBatch(i)
        \/ \E b \in 1..MaxPairChunks : PairComplete(i, b)
        \/ PairJoin(i)

(***************************************************************************)
(* translateBatch as a call: any texts, any response.                      *)
(***************************************************************************)
MaxTexts == 4

\* the texts of a batch: each empty (or blank) or not
BatchTexts ==
    UNION {[1..n -> {TRUE, FALSE}] : n \in 0..MaxTexts}

TextsOf(flags) == [i \in 1..Len(flags) |-> IF flags[i] THEN SourceText(i) ELSE Blank]

\* what the model call does for count segments sent: not made, throws, or a
\* response of 1..count+1 segments (short, complete, or with a surplus one)
ResponseOutcomes(count) ==
    IF count = 0
    THEN {[called |-> FALSE, throws |-> FALSE, n |-> 0]}
    ELSE {[called |-> TRUE, throws |-> TRUE, n |-> 0]}
         \cup {[called |-> TRUE, throws |-> FALSE, n |-> k] : k \in 1..(count + 1)}

BatchInit ==
    \E flags \in BatchTexts :
      \E o \in ResponseOutcomes(Len(NonEmptyIndices(TextsOf(flags)))) :
        tb = [pc |-> "called", texts |-> TextsOf(flags), outcome |-> o,
              sent |-> <<>>, out |-> <<>>]

\* translateBatch returns
BatchReturn ==
    /\ tb.pc = "called"
    /\ LET idx == NonEmptyIndices(tb.texts)
       IN  tb' = [tb EXCEPT
                    !.pc = "returned",
                    !.sent = IF tb.outcome.called
                             THEN [j \in 1..Len(idx) |-> tb.texts[idx[j]]]
                             ELSE <<>>,
                    !.out = TranslateBatch(tb.texts, tb.outcome)]
    /\ UNCHANGED otherThanBatch

BatchNext == BatchReturn

(***************************************************************************)
(* The application deleting a book: App.handleDeleteBook over dbService.   *)
(* dbService.ts holds two versions of deleteBook: the one over the books   *)
(* store alone (schema 2, chunks inside the book record) and the one over  *)
(* the books, chunks and chatThreads stores (schema 3).                    *)
(***************************************************************************)
MaxThreads == 1

AppBooks == {"b1", "b2"}

DbVersions == {"v2", "v3"}

\* a library of stored books with their chunks and 0..MaxThreads chat
\* threads each, all of them in the application's list; one is to be deleted
AppInit ==
    \E version \in DbVersions, target \in AppBooks,
       threads \in [AppBooks -> 0..MaxThreads], listed \in SUBSET AppBooks :
        /\ target \in listed
        /\ app = [pc |-> "ready", version |-> version, bookId |-> target,
                  dbBooks |-> listed, dbChunks |-> listed,
                  dbThreads |-> [b \in AppBooks |-> IF b \in listed THEN threads[b] ELSE 0],
                  books |-> listed, failed |-> {}, logged |-> FALSE]

\* catch (error) { console.error("Failed to delete book:", error) }
DeleteFailed(a, what) ==
    [a EXCEPT !.pc = "done", !.failed = @ \cup {what}, !.logged = TRUE]

\* handleDeleteBook(bookId) calls dbService.deleteBook(bookId)
HandleDeleteBook ==
    /\ app.pc = "ready"
    /\ app' = [app EXCEPT !.pc = IF app.version = "v3" THEN "chunks" ELSE "book"]
    /\ UNCHANGED otherThanApp

\* deleteBook (schema 3): await db.chunks.deleteByBookId(bookId)
DeleteChunks ==
    /\ app.pc = "chunks"
    /\ \E ok \in BOOLEAN :
          app' = IF ok
                 THEN [app EXCEPT !.pc = "book", !.dbChunks = @ \ {app.bookId}]
                 ELSE DeleteFailed(app, "chunks")
    /\ UNCHANGED otherThanApp

\* deleteBook: the book record is deleted; in schema 2 its chunks go with it
\* and deleteBook is over, in schema 3 the chat threads follow
DeleteBookRecord ==
    /\ app.pc = "book"
    /\ \E ok \in BOOLEAN :
          app' = IF ok
                 THEN [app EXCEPT
                         !.pc = IF app.version = "v3" THEN "threads" ELSE "appThreads",
                         !.dbBooks = @ \ {app.bookId},
                         !.dbChunks = @ \ {app.bookId}]
                 ELSE DeleteFailed(app, "book")
    /\ UNCHANGED otherThanApp

\* deleteBook (schema 3): await db.chatThreads.deleteByBookId(bookId); its
\* rejection is deleteBook's rejection
DeleteThreadsInDeleteBook ==
    /\ app.pc = "threads"
    /\ \E ok \in BOOLEAN :
          app' = IF ok
                 THEN [app EXCEPT !.pc = "appThreads", !.dbThreads[app.bookId] = 0]
                 ELSE DeleteFailed(app, "threads")
    /\ UNCHANGED otherThanApp

\* try { await dbService.deleteChatThreadsForBook(bookId) } catch {}
\* then the book is filtered out of the list
DeleteThreadsThenUpdateList ==
    /\ app.pc = "appThreads"
    /\ \E ok \in BOOLEAN :
          app' = [app EXCEPT !.pc = "done",
                             !.dbThreads[app.bookId] = IF ok THEN 0 ELSE @,
                             !.failed = IF ok THEN @ ELSE @ \cup {"appThreads"},
                             !.books = @ \ {app.bookId}]
    /\ UNCHANGED otherThanApp

AppNext ==
    \/ HandleDeleteBook
    \/ DeleteChunks
    \/ DeleteBookRecord
    \/ DeleteThreadsInDeleteBook
    \/ DeleteThreadsThenUpdateList

(***************************************************************************)
(* The embedding loop of translateBook on chunk lists longer than one      *)
(* sub-batch: what it requests and what it attaches.                       *)
(***************************************************************************)
MaxEmbedExtra == 1

\* the lengths of translatedChunks: around one and two sub-batches
EmbedLengths ==
    {1, EmbeddingBatchSize, EmbeddingBatchSize + 1}
    \cup {2 * EmbeddingBatchSize + d : d \in 0..MaxEmbedExtra}

\* which chunks came back translated: all, none (every batch fell back),
\* or every second one
EmbedPatterns == {"all", "none", "odd"}

TranslatedChunksOf(n, pattern) ==
    [k \in 1..n |->
        [id |-> k,
         content |-> IF pattern = "all" \/ (pattern = "odd" /\ k % 2 = 1)
                     THEN Translated(SourceText(k)) ELSE SourceText(k),
         embedding |-> "orig"]]

\* translateChunksParallel has returned; const allEmbeddings = []
EmbedInit ==
    \E n \in EmbedLengths, pattern \in EmbedPatterns :
        emb = [pc |-> "loop", translatedChunks |-> TranslatedChunksOf(n, pattern),
               i |-> 0, allEmbeddings |-> <<>>, requests |-> <<>>,
               chunksWithEmbeddings |-> <<>>]

\* one turn of for (i = 0; i < translatedChunks.length; i += 20): the
\* sub-batch is sliced, its texts are embedded (remotely or by the
\* fallback) and the vectors are pushed; after the last turn the vectors
\* are attached to the chunks by index
EmbedLoopStep ==
    /\ emb.pc = "loop"
    /\ emb.i < Len(emb.translatedChunks)
    /\ \E remoteOk \in BOOLEAN :
          LET n     == Len(emb.translatedChunks)
              to    == Min(emb.i + EmbeddingBatchSize, n)
              batch == Slice(emb.translatedChunks, emb.i, to)
              texts == [j \in 1..Len(batch) |-> batch[j].content]
              all   == emb.allEmbeddings \o GenerateEmbeddingsBatch(texts, remoteOk)
              last  == ~(emb.i + EmbeddingBatchSize < n)
          IN  emb' = [emb EXCEPT
                        !.allEmbeddings = all,
                        !.requests = Append(@, [from |-> emb.i, to |-> to,
                                                count |-> Len(texts)]),
                        !.i = @ + EmbeddingBatchSize,
                        !.pc = IF last THEN "done" ELSE "loop",
                        !.chunksWithEmbeddings =
                            IF last THEN ChunksWithEmbeddings(emb.translatedChunks, all)
                            ELSE @]
    /\ UNCHANGED otherThanEmbed

EmbedNext == EmbedLoopStep

(***************************************************************************)
(* generateAnswer seen from its callbacks: the calls it makes to the       *)
(* caller's onThought, onToolUse, onProgress, onToken and onDone, any of   *)
(* which may throw, on the book-retrieval path with one search query and   *)
(* one streamed token.                                                     *)
(***************************************************************************)
CallbackKinds == {"onThought", "onToolUse", "onProgress", "onToken", "onDone"}

\* the callback calls made inside the try block, in program order: the line
\* of the call and the callback called
TryCallSites ==
    << [line |-> 694, kind |-> "onProgress"], [line |-> 703, kind |-> "onToolUse"],
       [line |-> 708, kind |-> "onProgress"], [line |-> 486, kind |-> "onThought"],
       [line |-> 513, kind |-> "onToolUse"],  [line |-> 515, kind |-> "onProgress"],
       [line |-> 522, kind |-> "onToolUse"],  [line |-> 530, kind |-> "onThought"],
       [line |-> 538, kind |-> "onProgress"], [line |-> 546, kind |-> "onToolUse"],
       [line |-> 554, kind |-> "onToolUse"],  [line |-> 570, kind |-> "onThought"],
       [line |-> 743, kind |-> "onThought"],  [line |-> 590, kind |-> "onThought"],
       [line |-> 633, kind |-> "onToolUse"],  [line |-> 640, kind |-> "onProgress"],
       [line |-> 648, kind |-> "onToken"],    [line |-> 650, kind |-> "onDone"],
       [line |-> 655, kind |-> "onToolUse"],  [line |-> 663, kind |-> "onThought"],
       [line |-> 781, kind |-> "onThought"] >>

\* the call of the initial thought, before the try block, and the call of the
\* error thought, inside the catch block
InitThoughtSite == [line |-> 685, kind |-> "onThought"]
ErrorThoughtSite == [line |-> 800, kind |-> "onThought"]

\* a call of a callback: it returns, or, when the caller's callback is one
\* that throws, it may throw
CallOutcomes(site, throwing) ==
    IF site.kind \in throwing THEN {"returns", "throws"} ELSE {"returns"}

\* generateAnswer is called; throwing: the callbacks of the caller that throw
CallbacksInit ==
    \E throwing \in SUBSET CallbackKinds :
        cbRun = [pc |-> "init", throwing |-> throwing, at |-> 0,
                 threw |-> 0, stages |-> <<"Initialization">>]

\* thoughts.push(initThought); callbacks?.onThought?.(initThought): not in
\* any try block, so what it throws leaves generateAnswer
CbInitThought ==
    /\ cbRun.pc = "init"
    /\ \E o \in CallOutcomes(InitThoughtSite, cbRun.throwing) :
          cbRun' = IF o = "throws"
                   THEN [cbRun EXCEPT !.pc = "rejected", !.threw = InitThoughtSite.line]
                   ELSE [cbRun EXCEPT !.pc = "try", !.at = 1]
    /\ UNCHANGED otherThanCallbacks

\* the next callback call of the try block; what it throws is caught by the
\* catch block of generateAnswer; after the last call the result is returned
CbTryCall ==
    /\ cbRun.pc = "try"
    /\ LET site == TryCallSites[cbRun.at] IN
       \E o \in CallOutcomes(site, cbRun.throwing) :
          cbRun' = IF o = "throws"
                   THEN [cbRun EXCEPT !.pc = "catch", !.threw = site.line]
                   ELSE IF cbRun.at = Len(TryCallSites)
                   THEN [cbRun EXCEPT !.pc = "returned",
                                      !.stages = Append(@, "Complete")]
                   ELSE [cbRun EXCEPT !.at = @ + 1]
    /\ UNCHANGED otherThanCallbacks

\* something else in the try block throws (a model call, the vector store)
CbPipelineThrows ==
    /\ cbRun.pc = "try"
    /\ cbRun' = [cbRun EXCEPT !.pc = "catch"]
    /\ UNCHANGED otherThanCallbacks

\* the catch block: thoughts.push(errorThought);
\* callbacks?.onThought?.(errorThought), outside the inner try
CbErrorThought ==
    /\ cbRun.pc = "catch"
    /\ \E o \in CallOutcomes(ErrorThoughtSite, cbRun.throwing) :
          cbRun' = IF o = "throws"
                   THEN [cbRun EXCEPT !.pc = "rejected", !.threw = ErrorThoughtSite.line,
                                      !.stages = Append(@, "Error")]
                   ELSE [cbRun EXCEPT !.pc = "apology",
                                      !.stages = Append(@, "Error")]
    /\ UNCHANGED otherThanCallbacks

\* the apology rewrite, whose failure is swallowed, and the return
CbApology ==
    /\ cbRun.pc = "apology"
    /\ cbRun' = [cbRun EXCEPT !.pc = "returned"]
    /\ UNCHANGED otherThanCallbacks

CallbacksNext ==
    \/ CbInitThought
    \/ CbTryCall
    \/ CbPipelineThrows
    \/ CbErrorThought
    \/ CbApology

(***************************************************************************)
(* One chat thread of the Reader and the entry points of its chat panel:   *)
(* each entry point may start a generateAnswer run, whose tokens are       *)
(* appended to the last message of the thread.                             *)
(***************************************************************************)
MaxPanelRuns == 2
MaxPanelTokens == 1

PanelRuns == 1..MaxPanelRuns

\* a message of the thread: owner is the run whose placeholder it is (0 for
\* user messages and earlier answers), tokens the runs whose tokens it got
PanelUser == [role |-> "user", owner |-> 0, tokens |-> <<>>, final |-> FALSE]

PanelPlaceholder(r) == [role |-> "assistant", owner |-> r, tokens |-> <<>>, final |-> FALSE]

PanelThreadOf(n) ==
    [i \in 1..(2 * n) |->
        IF i % 2 = 1 THEN PanelUser
        ELSE [role |-> "assistant", owner |-> 0, tokens |-> <<>>, final |-> TRUE]]

\* the Reader is mounted with an active thread of 0..MaxTurns exchanges
PanelInit ==
    \E n \in 0..MaxTurns :
        panel = [pc |-> "mounted", messages |-> PanelThreadOf(n),
                 isAiThinking |-> FALSE, inputValue |-> FALSE, editingIndex |-> -1,
                 inflight |-> {}, started |-> 0, sent |-> [r \in PanelRuns |-> 0],
                 via |-> [r \in PanelRuns |-> "none"]]

\* Reader.handleSendMessage up to its await, as run r started by entry
\* point e: no isAiThinking test
ReaderSend(p, r, e) ==
    [p EXCEPT !.messages = @ \o <<PanelUser, PanelPlaceholder(r)>>,
              !.inputValue = FALSE,
              !.isAiThinking = TRUE,
              !.inflight = @ \cup {r},
              !.started = r,
              !.via[r] = e]

\* Reader.handleResendEdited up to its await: nothing when no message is
\* under edit; no isAiThinking test
ReaderResend(p, r, e) ==
    IF p.editingIndex < 0 THEN p
    ELSE [p EXCEPT !.messages = Append(Slice(@, 0, p.editingIndex + 1), PanelPlaceholder(r)),
                   !.inputValue = FALSE,
                   !.isAiThinking = TRUE,
                   !.editingIndex = -1,
                   !.inflight = @ \cup {r},
                   !.started = r,
                   !.via[r] = e]

\* onInputChange: the user types; the main input is disabled while
\* isAiThinking, the edit box is not
PanelInputChange ==
    /\ panel.pc = "mounted"
    /\ ~panel.isAiThinking \/ panel.editingIndex >= 0
    /\ \E v \in BOOLEAN :
          /\ v # panel.inputValue
          /\ panel' = [panel EXCEPT !.inputValue = v]
    /\ UNCHANGED otherThanPanel

\* the edit button of a user message, disabled while isAiThinking
PanelStartEdit ==
    /\ panel.pc = "mounted"
    /\ ~panel.isAiThinking
    /\ \E i \in 0..(Len(panel.messages) - 1) :
          /\ panel.messages[i + 1].role = "user"
          /\ panel' = [panel EXCEPT !.editingIndex = i, !.inputValue = TRUE]
    /\ UNCHANGED otherThanPanel

\* onCancelEdit (the cancel button or Escape)
PanelCancelEdit ==
    /\ panel.pc = "mounted"
    /\ panel.editingIndex >= 0
    /\ panel' = [panel EXCEPT !.editingIndex = -1, !.inputValue = FALSE]
    /\ UNCHANGED otherThanPanel

\* EnhancedChatPanel.handleSendMessage, from the send button or the Enter
\* key: if (inputValue.trim() && !isAiThinking)
PanelSendMessage ==
    /\ panel.pc = "mounted"
    /\ panel.started < MaxPanelRuns
    /\ \E e \in {"send button", "Enter"} :
          LET r == panel.started + 1
              cleared == [panel EXCEPT !.inputValue = FALSE]
          IN  panel' = IF panel.inputValue /\ ~panel.isAiThinking
                       THEN IF panel.editingIndex >= 0
                            THEN ReaderResend(cleared, r, e)
                            ELSE ReaderSend(cleared, r, e)
                       ELSE panel
    /\ UNCHANGED otherThanPanel

\* the resend button of the edit box: disabled={!inputValue.trim() ||
\* isAiThinking}
PanelResendClick ==
    /\ panel.pc = "mounted"
    /\ panel.started < MaxPanelRuns
    /\ panel.editingIndex >= 0
    /\ panel.inputValue /\ ~panel.isAiThinking
    /\ panel' = ReaderResend(panel, panel.started + 1, "resend button")
    /\ UNCHANGED otherThanPanel

\* Ctrl/Cmd+Enter in the edit box: if (inputValue.trim()) onResendEdited(...)
PanelEditKeyDown ==
    /\ panel.pc = "mounted"
    /\ panel.started < MaxPanelRuns
    /\ panel.editingIndex >= 0
    /\ panel' = IF panel.inputValue
                THEN ReaderResend(panel, panel.started + 1, "Ctrl+Enter")
                ELSE panel
    /\ UNCHANGED otherThanPanel

\* handleSelectionAction with 'summarize' or 'explain' on a text selection of
\* the book: inputValue is cleared and handleSendMessage(prompt) is called
HandleSelectionAction ==
    /\ panel.pc = "mounted"
    /\ panel.started < MaxPanelRuns
    /\ \E action \in {"summarize", "explain"} :
          panel' = ReaderSend(panel, panel.started + 1, action)
    /\ UNCHANGED otherThanPanel

\* onToken of run r: the token goes to the last message of the thread when
\* it is an assistant message
PanelOnToken(msgs, r) ==
    IF Len(msgs) >= 1 /\ msgs[Len(msgs)].role = "assistant"
    THEN [msgs EXCEPT ![Len(msgs)].tokens = Append(@, r)]
    ELSE msgs

PanelToken ==
    /\ panel.pc = "mounted"
    /\ \E r \in panel.inflight :
          /\ panel.sent[r] < MaxPanelTokens
          /\ panel' = [panel EXCEPT !.messages = PanelOnToken(@, r),
                                    !.sent[r] = @ + 1]
    /\ UNCHANGED otherThanPanel

\* generateAnswer of run r returns: thoughts and toolUses go to the last
\* assistant message, and the finally block clears isAiThinking
PanelReturn ==
    /\ panel.pc = "mounted"
    /\ \E r \in panel.inflight :
          panel' = [panel EXCEPT
                      !.messages = IF Len(@) >= 1 /\ @[Len(@)].role = "assistant"
                                   THEN [@ EXCEPT ![Len(@)].final = TRUE]
                                   ELSE @,
                      !.isAiThinking = FALSE,
                      !.inflight = @ \ {r}]
    /\ UNCHANGED otherThanPanel

PanelNext ==
    \/ PanelInputChange
    \/ PanelStartEdit
    \/ PanelCancelEdit
    \/ PanelSendMessage
    \/ PanelResendClick
    \/ PanelEditKeyDown
    \/ HandleSelectionAction
    \/ PanelToken
    \/ PanelReturn

(***************************************************************************)
(* PDFTranslationService.translateBookWithPython: the simulated-progress   *)
(* timer around the Python translation call, the save, and the fallback to *)
(* translateBook (the translator above), with an onProgress that does not  *)
(* throw (the translation panel passes setProgress).                       *)
(***************************************************************************)
MaxTicks == 2

\* book.totalPages || book.pageCount || 1
PageCounts == {1, 72}

\* progressIncrement * 100, with progressIncrement =
\* (updateInterval / (totalPages * 2.5 * 1000)) * 90: 3600 / totalPages
TickIncrement(totalPages) == 3600 \div totalPages

SimulatedCap == 90

\* Math.ceil((currentProgress / 100) * totalPages)
CurrentPageEstimate(currentProgress, totalPages) ==
    (currentProgress * totalPages + 99) \div 100

\* one onProgress call: by the timer callback or by the function's own code
Report(current, by) == [current |-> current, total |-> 100, by |-> by]

\* the clearing of the timer in .finally(() => clearInterval(progressInterval))
ClearInterval(timer) == "cleared"

\* a .then in place of .finally: the timer is cleared only when the Python
\* call succeeds
ClearOnSuccessOnly(p, outcome) ==
    IF outcome = "ok" THEN [p EXCEPT !.timer = ClearInterval(@)] ELSE p

\* .finally of the Python call: runs whether it fulfilled or rejected
Finally(p, outcome) == [p EXCEPT !.timer = ClearInterval(@)]

\* the translator's arguments are those of the pending call, and
\* translateBook is not running yet
TrNotCalled ==
    /\ tpc = "idle"
    /\ tBook \in TrBooks
    /\ tOpts \in TrOptions
    /\ cbFaulty = FALSE
    /\ batchSize = DefaultBatchSize
    /\ maxConcurrentTranslations = DefaultMaxWorkers
    /\ batches = <<>>
    /\ batchIndex = 0
    /\ maxConcurrent = 0
    /\ activeBatches = 0
    /\ bstatus = <<>>
    /\ bstart = <<>>
    /\ boutcome = <<>>
    /\ processedChunks = 0
    /\ translatedChunks = <<>>
    /\ progressLog = <<>>
    /\ allEmbeddings = <<>>
    /\ tResult = NoResult
    /\ dbBooks = IF tBook.kind = "missing" THEN {} ELSE {"src"}
    /\ dbChunks = StoredChunks(tBook.chunks)
    /\ decrements = <<>>
    /\ embedI = 0
    /\ translatedBook = NoBook

PythonInit ==
    \E fileBuffer \in BOOLEAN, totalPages \in PageCounts :
        py = [pc |-> "call", fileBuffer |-> fileBuffer, totalPages |-> totalPages,
              currentProgress |-> 0, timer |-> "none", ticks |-> 0, settled |-> FALSE,
              log |-> <<>>, returned |-> FALSE, success |-> FALSE]

\* everything of the translator but tpc
trButPc == <<tBook, tOpts, cbFaulty, batchSize, maxConcurrentTranslations,
             batches, batchIndex, maxConcurrent, activeBatches, bstatus, bstart,
             boutcome, processedChunks, translatedChunks, progressLog,
             allEmbeddings, tResult, dbBooks, dbChunks, decrements,
             embedI, translatedBook>>

\* the call up to its first await: the argument test, the first report and
\* the start of the timer; or the catch block calls translateBook
PyCall ==
    /\ py.pc = "call"
    /\ IF tBook.kind = "missing" \/ ~py.fileBuffer
       THEN /\ py' = [py EXCEPT !.pc = "fallback"]
            /\ tpc' = "call"
       ELSE /\ py' = [py EXCEPT !.pc = "python", !.timer = "running",
                                !.log = <<Report(0, "code")>>]
            /\ UNCHANGED tpc
    /\ UNCHANGED trButPc
    /\ UNCHANGED otherThanPython

\* the setInterval callback runs
PyTick ==
    /\ py.timer = "running"
    /\ py.ticks < MaxTicks
    /\ LET progress == Min(py.currentProgress + TickIncrement(py.totalPages), SimulatedCap)
       IN  py' = [py EXCEPT !.currentProgress = progress,
                            !.ticks = @ + 1,
                            !.log = Append(@, Report(progress, "timer"))]
    /\ UNCHANGED trVars
    /\ UNCHANGED otherThanPython

\* generateTranslatedPDFPython settles: the timer is cleared; then the 95%
\* report and the save, or the catch block calls translateBook
PySettle ==
    /\ py.pc = "python"
    /\ \E outcome \in {"ok", "fails"} :
          LET p == [Finally(py, outcome) EXCEPT !.settled = TRUE]
          IN  IF outcome = "ok"
              THEN /\ py' = [p EXCEPT !.pc = "save",
                                      !.log = Append(@, Report(95, "code"))]
                   /\ UNCHANGED tpc
              ELSE /\ py' = [p EXCEPT !.pc = "fallback"]
                   /\ tpc' = "call"
    /\ UNCHANGED trButPc
    /\ UNCHANGED otherThanPython

\* saveTranslatedBook settles: the book (with the source's chunks) is stored
\* and 100% reported, or the save failed after k chunk records and the
\* catch block calls translateBook
PySaved ==
    /\ py.pc = "save"
    /\ LET book == [id |-> "python", chunks |-> tBook.chunks]
           n    == Len(tBook.chunks)
       IN  \/ /\ dbBooks' = dbBooks \cup {book.id}
              /\ dbChunks' = PutChunks(dbChunks, book, n)
              /\ py' = [py EXCEPT !.pc = "done", !.returned = TRUE, !.success = TRUE,
                                  !.log = Append(@, Report(100, "code"))]
              /\ UNCHANGED tpc
           \/ /\ UNCHANGED <<dbBooks, dbChunks>>
              /\ py' = [py EXCEPT !.pc = "fallback"]
              /\ tpc' = "call"
           \/ \E k \in 0..(n - 1) :
              /\ dbBooks' = dbBooks \cup {book.id}
              /\ dbChunks' = PutChunks(dbChunks, book, k)
              /\ py' = [py EXCEPT !.pc = "fallback"]
              /\ tpc' = "call"
    /\ UNCHANGED <<tBook, tOpts, cbFaulty, batchSize, maxConcurrentTranslations,
                   batches, batchIndex, maxConcurrent, activeBatches, bstatus, bstart,
                   boutcome, processedChunks, translatedChunks, progressLog,
                   allEmbeddings, tResult, decrements, embedI, translatedBook>>
    /\ UNCHANGED otherThanPython

\* translateBook has returned: its result is the result
PyFallbackReturn ==
    /\ py.pc = "fallback"
    /\ tpc = "done"
    /\ py' = [py EXCEPT !.pc = "done", !.returned = TRUE, !.success = tResult.success]
    /\ UNCHANGED trVars
    /\ UNCHANGED otherThanPython

PythonNext ==
    \/ PyCall
    \/ PyTick
    \/ PySettle
    \/ PySaved
    \/ PyFallbackReturn

\* translateBookWithPython with the translateBook it falls back to
PythonTrNext == PythonNext \/ TrNext

(***************************************************************************)
(* multiQueryRetrieval: from the text the query-generation model returns   *)
(* to the list of queries and the vector searches made with them.          *)
(***************************************************************************)
MaxOutputLen == 7

\* the characters of a text: a letter, a space, a line feed
Chars == {"a", " ", "\n"}

Texts(n) == UNION {[1..k -> Chars] : k \in 0..n}

\* the user's question: plain, with surrounding spaces, only spaces, empty
UserQueries == {<<"a">>, <<" ", "a">>, <<" ">>, <<>>}

\* String.prototype.split('\n'): the segments between the line feeds
RECURSIVE SplitLines(_)
SplitLines(text) ==
    IF \A i \in 1..Len(text) : text[i] # "\n"
    THEN <<text>>
    ELSE LET at == CHOOSE i \in 1..Len(text) :
                       /\ text[i] = "\n"
                       /\ \A j \in 1..(i - 1) : text[j] # "\n"
         IN  <<SubSeq(text, 1, at - 1)>> \o SplitLines(SubSeq(text, at + 1, Len(text)))

\* q.trim() is a non-empty string
TrimIsTruthy(q) == \E i \in 1..Len(q) : q[i] # " "

\* a list that takes the first three entries after the original query was
\* put in front
SliceAfterUnshift(query, generatedQueries) ==
    Slice(<<query>> \o SelectSeq(SplitLines(generatedQueries), TrimIsTruthy),
          0, MaxGeneratedQueries)

\* generatedQueries.split('\n').filter(q => q.trim()).slice(0, 3), then
\* queries.unshift(query)
QueriesOf(query, generatedQueries) ==
    <<query>> \o Slice(SelectSeq(SplitLines(generatedQueries), TrimIsTruthy),
                       0, MaxGeneratedQueries)

QueriesInit ==
    \E query \in UserQueries, output \in Texts(MaxOutputLen) :
        mq = [pc |-> "generate", query |-> query, output |-> output,
              queries |-> <<>>, i |-> 0, searches |-> <<>>]

\* queryChain.invoke settles: the query list is made and the loop entered,
\* or the call threw
MqGenerated ==
    /\ mq.pc = "generate"
    /\ \/ mq' = [mq EXCEPT !.pc = "search",
                           !.queries = QueriesOf(mq.query, mq.output)]
       \/ mq' = [mq EXCEPT !.pc = "failed"]
    /\ UNCHANGED otherThanQueries

\* one pass of the loop: vectorStore.similaritySearch(queries[i], 5) is
\* called and returns, or throws; after the last query the documents are
\* returned
MqSearch ==
    /\ mq.pc = "search"
    /\ LET searched == [mq EXCEPT !.searches =
                            Append(@, [query |-> mq.queries[mq.i + 1], k |-> SearchK])]
       IN  \/ mq' = [searched EXCEPT !.i = @ + 1,
                                     !.pc = IF mq.i + 1 = Len(mq.queries)
                                            THEN "done" ELSE "search"]
           \/ mq' = [searched EXCEPT !.pc = "failed"]
    /\ UNCHANGED otherThanQueries

QueriesNext ==
    \/ MqGenerated
    \/ MqSearch

(***************************************************************************)
(* Specifications.                                                         *)
(***************************************************************************)
vars == <<trVars, ragVars, stream, decision, chat, search, getters, reader, pair, app, tb, emb, cbRun, panel, py, mq>>

\* the translator at rest
TrIdle ==
    /\ tpc = "idle"
    /\ tBook = [kind |-> "missing", chunks |-> <<>>]
    /\ tOpts = [batchSize |-> 0, maxWorkers |-> 0]
    /\ cbFaulty = FALSE
    /\ batchSize = DefaultBatchSize
    /\ maxConcurrentTranslations = DefaultMaxWorkers
    /\ batches = <<>>
    /\ batchIndex = 0
    /\ maxConcurrent = 0
    /\ activeBatches = 0
    /\ bstatus = <<>>
    /\ bstart = <<>>
    /\ boutcome = <<>>
    /\ processedChunks = 0
    /\ translatedChunks = <<>>
    /\ progressLog = <<>>
    /\ allEmbeddings = <<>>
    /\ tResult = NoResult
    /\ dbBooks = {}
    /\ dbChunks = StoredChunks(<<>>)
    /\ decrements = <<>>
    /\ embedI = 0
    /\ translatedBook = NoBook

\* no generateAnswer call
RagIdle ==
    /\ run = [NewRun EXCEPT !.pc = "idle"]
    /\ rBook = [id |-> "book", chunks |-> <<>>]
    /\ rHistory = [given |-> FALSE, messages |-> <<>>]
    /\ bookVectorStores = [book |-> NoStore]
    /\ embedCalls = 0
    /\ embedded = 0
    /\ runs = 0

\* no answer stream is read
StreamIdle == stream = [pc |-> "idle"]

\* no decideRetrievalSources call
DecisionIdle == decision = [pc |-> "idle"]

\* no searchChatHistory call
ChatIdle == chat = [pc |-> "idle"]

\* no similaritySearch call
SearchIdle == search = [pc |-> "idle"]

\* nobody calls getOrCreateVectorStore outside generateAnswer
StoreIdle == getters = <<>>

\* no Reader is mounted
ReaderIdle == reader = [pc |-> "idle"]

\* no second translateBook invocation
PairIdle == pair = [pc |-> "idle"]

\* no translateBatch call outside translateBook
BatchIdle == tb = [pc |-> "idle"]

\* translateBook is not in its embedding loop on a long list
EmbedIdle == emb = [pc |-> "idle"]

\* no generateAnswer run with throwing callbacks is in progress
CallbacksIdle == cbRun = [pc |-> "idle"]

\* the chat panel is not mounted
PanelIdle == panel = [pc |-> "idle"]

\* no translateBookWithPython call
PythonIdle == py = [pc |-> "idle"]

\* no multiQueryRetrieval call
QueriesIdle == mq = [pc |-> "idle"]

\* the application is not deleting a book
AppIdle == app = [pc |-> "idle"]

\* one translateBook call on a book and options of the caller's choice
InitTr ==
    /\ TrInit
    /\ RagIdle /\ StreamIdle /\ DecisionIdle /\ ChatIdle /\ SearchIdle /\ StoreIdle /\ ReaderIdle /\ PairIdle /\ AppIdle /\ BatchIdle /\ EmbedIdle /\ CallbacksIdle /\ PanelIdle /\ PythonIdle /\ QueriesIdle

SpecTr == InitTr /\ [][TrNext]_vars

\* the same call when the event loop keeps running what is ready: the poll
\* timer of the loop fires, every model call settles, Promise.all is resumed
\* and the later awaits of translateBook settle
TrFairness ==
    /\ WF_vars(TranslateBookCall)
    /\ WF_vars(StartBatch)
    /\ \A b \in 1..MaxChunks : WF_vars(CompleteBatch(b))
    /\ WF_vars(JoinBatches)

SpecTrFair == InitTr /\ [][TrNext]_vars /\ TrFairness

\* one similaritySearch call
InitSearch ==
    /\ SearchInit
    /\ TrIdle /\ RagIdle /\ StreamIdle /\ DecisionIdle /\ ChatIdle /\ StoreIdle /\ ReaderIdle /\ PairIdle /\ AppIdle /\ BatchIdle /\ EmbedIdle /\ CallbacksIdle /\ PanelIdle /\ PythonIdle /\ QueriesIdle

SpecSearch == InitSearch /\ [][SearchNext]_vars

\* one answer stream read to its end
InitStream ==
    /\ StreamInit
    /\ TrIdle /\ RagIdle /\ DecisionIdle /\ ChatIdle /\ SearchIdle /\ StoreIdle /\ ReaderIdle /\ PairIdle /\ AppIdle /\ BatchIdle /\ EmbedIdle /\ CallbacksIdle /\ PanelIdle /\ PythonIdle /\ QueriesIdle

SpecStream == InitStream /\ [][StreamNext]_vars

\* one decideRetrievalSources call
InitDecide ==
    /\ DecisionInit
    /\ TrIdle /\ RagIdle /\ StreamIdle /\ ChatIdle /\ SearchIdle /\ StoreIdle /\ ReaderIdle /\ PairIdle /\ AppIdle /\ BatchIdle /\ EmbedIdle /\ CallbacksIdle /\ PanelIdle /\ PythonIdle /\ QueriesIdle

SpecDecide == InitDecide /\ [][DecisionNext]_vars

\* one searchChatHistory call
InitChat ==
    /\ ChatInit
    /\ TrIdle /\ RagIdle /\ StreamIdle /\ DecisionIdle /\ SearchIdle /\ StoreIdle /\ ReaderIdle /\ PairIdle /\ AppIdle /\ BatchIdle /\ EmbedIdle /\ CallbacksIdle /\ PanelIdle /\ PythonIdle /\ QueriesIdle

SpecChat == InitChat /\ [][ChatNext]_vars

\* generateAnswer calls, one after the other, on a book and a chat history
\* of the caller's choice
InitRag ==
    /\ RagInit
    /\ TrIdle /\ StreamIdle /\ DecisionIdle /\ ChatIdle /\ SearchIdle /\ StoreIdle /\ ReaderIdle /\ PairIdle /\ AppIdle /\ BatchIdle /\ EmbedIdle /\ CallbacksIdle /\ PanelIdle /\ PythonIdle /\ QueriesIdle

SpecRag == InitRag /\ [][RagNext]_vars

\* callers of getOrCreateVectorStore that may overlap
InitStore ==
    /\ StoreInit
    /\ TrIdle /\ RagIdle /\ StreamIdle /\ DecisionIdle /\ ChatIdle /\ SearchIdle /\ ReaderIdle /\ PairIdle /\ AppIdle /\ BatchIdle /\ EmbedIdle /\ CallbacksIdle /\ PanelIdle /\ PythonIdle /\ QueriesIdle

SpecStore == InitStore /\ [][StoreNext]_vars

\* a mounted Reader handling one send or resend
InitReader ==
    /\ ReaderInit
    /\ TrIdle /\ RagIdle /\ StreamIdle /\ DecisionIdle /\ ChatIdle /\ SearchIdle /\ StoreIdle /\ PairIdle /\ AppIdle /\ BatchIdle /\ EmbedIdle /\ CallbacksIdle /\ PanelIdle /\ PythonIdle /\ QueriesIdle

SpecReader == InitReader /\ [][ReaderNext]_vars

\* two translateBook invocations that may overlap
InitPair ==
    /\ PairInit
    /\ TrIdle /\ RagIdle /\ StreamIdle /\ DecisionIdle /\ ChatIdle /\ SearchIdle /\ StoreIdle /\ ReaderIdle /\ AppIdle /\ BatchIdle /\ EmbedIdle /\ CallbacksIdle /\ PanelIdle /\ PythonIdle /\ QueriesIdle

SpecPair == InitPair /\ [][PairNext]_vars

\* one translateBatch call
InitBatch ==
    /\ BatchInit
    /\ TrIdle /\ RagIdle /\ StreamIdle /\ DecisionIdle /\ ChatIdle /\ SearchIdle /\ StoreIdle /\ ReaderIdle /\ PairIdle /\ AppIdle /\ EmbedIdle /\ CallbacksIdle /\ PanelIdle /\ PythonIdle /\ QueriesIdle

SpecBatch == InitBatch /\ [][BatchNext]_vars

\* the application deleting one book of its library
InitApp ==
    /\ AppInit
    /\ TrIdle /\ RagIdle /\ StreamIdle /\ DecisionIdle /\ ChatIdle /\ SearchIdle /\ StoreIdle /\ ReaderIdle /\ PairIdle /\ BatchIdle /\ EmbedIdle /\ CallbacksIdle /\ PanelIdle /\ PythonIdle /\ QueriesIdle

SpecApp == InitApp /\ [][AppNext]_vars

\* the embedding loop of translateBook after translateChunksParallel returned
InitEmbed ==
    /\ EmbedInit
    /\ TrIdle /\ RagIdle /\ StreamIdle /\ DecisionIdle /\ ChatIdle /\ SearchIdle /\ StoreIdle /\ ReaderIdle /\ PairIdle /\ BatchIdle /\ AppIdle /\ CallbacksIdle /\ PanelIdle /\ PythonIdle /\ QueriesIdle

\* translateBook on a short book from its call on, or on a long chunk list
\* from its embedding loop on
InitTrEmbed == InitTr \/ InitEmbed

TrEmbedNext == TrNext \/ EmbedNext

SpecTrEmbed == InitTrEmbed /\ [][TrEmbedNext]_vars

\* generateAnswer called with callbacks that may throw
InitCallbacks ==
    /\ CallbacksInit
    /\ TrIdle /\ RagIdle /\ StreamIdle /\ DecisionIdle /\ ChatIdle /\ SearchIdle /\ StoreIdle /\ ReaderIdle /\ PairIdle /\ BatchIdle /\ AppIdle /\ EmbedIdle /\ PanelIdle /\ PythonIdle /\ QueriesIdle

SpecCallbacks == InitCallbacks /\ [][CallbacksNext]_vars

\* a mounted Reader with its chat panel
InitPanel ==
    /\ PanelInit
    /\ TrIdle /\ RagIdle /\ StreamIdle /\ DecisionIdle /\ ChatIdle /\ SearchIdle /\ StoreIdle /\ ReaderIdle /\ PairIdle /\ BatchIdle /\ AppIdle /\ EmbedIdle /\ CallbacksIdle /\ PythonIdle /\ QueriesIdle

SpecPanel == InitPanel /\ [][PanelNext]_vars

\* translateBookWithPython is called from the translation panel
InitPython ==
    /\ PythonInit
    /\ TrNotCalled
    /\ RagIdle /\ StreamIdle /\ DecisionIdle /\ ChatIdle /\ SearchIdle /\ StoreIdle /\ ReaderIdle /\ PairIdle /\ BatchIdle /\ AppIdle /\ EmbedIdle /\ CallbacksIdle /\ PanelIdle /\ QueriesIdle

SpecPython == InitPython /\ [][PythonTrNext]_vars

\* multiQueryRetrieval is called
InitQueries ==
    /\ QueriesInit
    /\ TrIdle /\ RagIdle /\ StreamIdle /\ DecisionIdle /\ ChatIdle /\ SearchIdle /\ StoreIdle /\ ReaderIdle /\ PairIdle /\ BatchIdle /\ AppIdle /\ EmbedIdle /\ CallbacksIdle /\ PanelIdle /\ PythonIdle

SpecQueries == InitQueries /\ [][QueriesNext]_vars

(***************************************************************************)
(* Claims about the batch translator (checked under SpecTr).               *)
(***************************************************************************)
\* translateChunksParallel has returned its array: every batch body finished
TcpReturned ==
    /\ tpc \in {"embed", "pdf", "save", "done"}
    /\ Len(batches) > 0
    /\ \A b \in 1..Len(batches) : bstatus[b] = "done"

\* C3: whatever the order in which the batch model calls finish, the array
\* translateChunksParallel returns has the length of the input chunk list,
\* no position is left unfilled, and position i holds the chunk derived
\* from input chunk i (same id, same pageNumber).
C3_OrderPreserved ==
    TcpReturned =>
        /\ Len(translatedChunks) = Len(tBook.chunks)
        /\ \A i \in 1..Len(translatedChunks) :
              /\ translatedChunks[i] # Hole
              /\ translatedChunks[i].id = tBook.chunks[i].id
              /\ translatedChunks[i].pageNumber = tBook.chunks[i].pageNumber

\* the second batch (shorter than the first) finished before the first one,
\* and the array was returned
C3_Witness ==
    /\ TcpReturned
    /\ Len(batches) >= 2
    /\ Len(batches[2]) < Len(batches[1])
    /\ Len(progressLog) >= 3
    /\ progressLog[3].current = Len(batches[2])

\* the chunks of batch b in the returned array
BatchKeepsOriginal(b) ==
    \A i \in 1..Len(batches[b]) :
        translatedChunks[bstart[b] + i].content = batches[b][i].content

BatchIsTranslated(b) ==
    \A i \in 1..Len(batches[b]) :
        translatedChunks[bstart[b] + i].content =
            IF IsNonEmpty(batches[b][i].content)
            THEN Translated(batches[b][i].content)
            ELSE batches[b][i].content

\* the model answered every segment batch b sent
CompleteResponse(b) ==
    LET texts == [i \in 1..Len(batches[b]) |-> batches[b][i].content]
    IN  /\ boutcome[b].called
        /\ ~boutcome[b].throws
        /\ boutcome[b].n >= Len(NonEmptyIndices(texts))

\* the derived book and all its chunk records are stored
SaveSucceeded ==
    /\ translatedBook # NoBook
    /\ translatedBook.id \in dbBooks
    /\ \A i \in 1..Len(translatedBook.chunks) :
          /\ translatedBook.chunks[i].id \in DOMAIN dbChunks
          /\ dbChunks[translatedBook.chunks[i].id].bookId = translatedBook.id

\* C4: if the model call of a batch throws, the chunks of that batch keep
\* their original content, the chunks of every batch whose call answered
\* completely carry their translation, and the failed call does not make
\* translateBook fail: it returns success = true unless something else (the
\* save, the caller's callback) failed.
C4_BatchFailureIsolated ==
    /\ TcpReturned =>
          \A b \in 1..Len(batches) :
              /\ boutcome[b].throws => BatchKeepsOriginal(b)
              /\ CompleteResponse(b) => BatchIsTranslated(b)
    /\ (tpc = "done" /\ TcpReturned /\ ~cbFaulty /\ SaveSucceeded) =>
          tResult.success

\* translateBook returned success although the model call of one batch threw
\* and the call of another batch answered
C4_Witness ==
    /\ tpc = "done"
    /\ tResult.success
    /\ \E b \in 1..Len(batches) : boutcome[b].throws
    /\ \E b \in 1..Len(batches) : CompleteResponse(b)

\* C5: the number of batches in flight is the counter activeBatches and lies
\* between 0 and maxConcurrency; a batch is started only when fewer than
\* maxConcurrency are in flight; the counter is decremented exactly once per
\* started batch, whether its body finishes or fails.
C5_BoundedConcurrency ==
    Len(batches) > 0 =>
        /\ activeBatches = Cardinality({b \in 1..Len(batches) : bstatus[b] = "inflight"})
        /\ 0 <= activeBatches
        /\ activeBatches <= maxConcurrent
        /\ \A b \in 1..Len(batches) :
              decrements[b] = IF bstatus[b] \in {"done", "rejected"} THEN 1 ELSE 0

\* every slot is taken, a batch is waiting, and a failed batch gave its slot back
C5_Witness ==
    /\ tpc = "loop"
    /\ activeBatches = maxConcurrent
    /\ \E b \in 1..Len(batches) : bstatus[b] = "queued"
    /\ \E b \in 1..Len(batches) : bstatus[b] = "rejected" /\ decrements[b] = 1

\* the book argument fails translateBook's validation
InvalidBook == tBook.kind # "ok" \/ Len(tBook.chunks) = 0

\* C6: translateBook never raises; for a missing book, a book without a
\* chunk list or with zero chunks it returns success = false with an error
\* and translatedPages = 0, without starting a batch, calling the model or
\* saving anything; a later failure (such as a failed save) is returned as
\* success = false as well.
C6_NeverThrows ==
    /\ ~tResult.raised
    /\ tpc = "done" =>
          \/ tResult.success /\ SaveSucceeded
          \/ ~tResult.success /\ tResult.error # "none" /\ tResult.translatedPages = 0
    /\ (tpc = "done" /\ InvalidBook) =>
          /\ ~tResult.success
          /\ batches = <<>>
          /\ progressLog = <<>>
          /\ dbChunks = StoredChunks(tBook.chunks)
          /\ "derived" \notin dbBooks

\* translateBook returned its failure for a book with an empty chunk list
C6_Witness ==
    /\ tpc = "done"
    /\ tBook.kind = "ok"
    /\ Len(tBook.chunks) = 0
    /\ ~tResult.success
    /\ tResult.error = "Invalid book or no content to translate"


(***************************************************************************)
(* Claims about the RAG orchestrator (checked under SpecRag).              *)
(***************************************************************************)
Last(seq) == seq[Len(seq)]

StagesOf(thoughts) == {thoughts[i] : i \in 1..Len(thoughts)}

ToolNames(toolUses) == {toolUses[i].toolName : i \in 1..Len(toolUses)}

\* the collaborator calls the claim lists
ListedFailures == {"selection", "build", "querygen", "search", "chatDocs",
                   "chatQuery", "stream"}

\* the failures that reach generateAnswer's catch block
CaughtFailures == {"build", "querygen", "search", "chatQuery", "stream"}

GenerateAnswerSettled == run.pc = "done" /\ run.result.returned

\* the result of the catch block: an Error thought after what was recorded,
\* no chunks
ErrorResult ==
    /\ Last(run.result.thoughts) = "Error"
    /\ run.result.relevantChunks = <<>>
    /\ run.result.thoughts = Append(run.atFailure.thoughts, "Error")
    /\ run.result.toolUses = run.atFailure.toolUses

\* C1 as stated: whenever one of the listed collaborator calls (source
\* selection, index build, query generation, vector search, chat-history
\* search, answer streaming) failed, generateAnswer returns rather than
\* throws, and the result ends with an Error thought, has no relevant chunks
\* and keeps the thoughts and ToolUses recorded before the failure.
C1_Original ==
    (GenerateAnswerSettled /\ run.failed \cap ListedFailures # {})
        => (~run.result.raised /\ ErrorResult)

\* C1, amended: generateAnswer never throws on a collaborator failure.  A
\* failure of the index build, the query generation, a vector search, the
\* chat search's query embedding or the answer stream gives the Error result
\* (Error thought last, no relevant chunks, earlier thoughts and ToolUses
\* kept).  A failure of the source-selection call or of the chat search's
\* message embedding is absorbed where it happens and the run goes on
\* without an Error thought.
C1_NeverThrows ==
    GenerateAnswerSettled =>
        /\ ~run.result.raised
        /\ (run.failed \cap CaughtFailures # {}) => ErrorResult
        /\ (run.failed \cap CaughtFailures = {}) =>
              "Error" \notin StagesOf(run.result.thoughts)

\* the answer stream failed after tools were used and a fragment was read
C1_Witness ==
    /\ GenerateAnswerSettled
    /\ "stream" \in run.failed
    /\ run.frags > 0
    /\ Len(run.result.toolUses) >= 4
    /\ Last(run.result.thoughts) = "Error"

\* a failed selection call, and the run completed with chunks
C1_SelectionAbsorbed ==
    /\ GenerateAnswerSettled
    /\ run.failed = {"selection"}
    /\ Len(run.result.relevantChunks) > 0

SynthesizerInvoked ==
    \/ run.streams > 0
    \/ "Answer Generation" \in ToolNames(run.toolUses)
    \/ run.onToken # <<>>
    \/ run.onDone > 0

RetrievalEnded == "Post-Retrieval Reflection" \in StagesOf(run.thoughts)

\* C2: a run that ends retrieval with no passage and no chat snippet returns
\* the fixed not-found answer with empty relevantChunks and never invokes
\* the synthesizer (no stream, no Answer Generation ToolUse, no onToken, no
\* onDone); the synthesizer is only invoked with a passage or a snippet.
C2_NoContextNoSynthesis ==
    /\ (RetrievalEnded /\ run.relevantDocs = <<>> /\ run.chatSnippets = <<>>) =>
          /\ ~SynthesizerInvoked
          /\ GenerateAnswerSettled
          /\ ~run.result.raised
          /\ run.result.answer = NotFoundAnswer
          /\ run.result.relevantChunks = <<>>
    /\ SynthesizerInvoked => (run.relevantDocs # <<>> \/ run.chatSnippets # <<>>)

\* the book and the chat history were both searched and gave nothing
C2_Witness ==
    /\ GenerateAnswerSettled
    /\ {"search", "chat"} \subseteq run.calls
    /\ run.failed = {}
    /\ Len(rBook.chunks) > 0
    /\ run.result.answer = NotFoundAnswer

RetrievalComplete == "Retrieval Complete" \in StagesOf(run.thoughts)

Occurrences(seq, x) == Cardinality({i \in 1..Len(seq) : seq[i] = x})

\* C9: the list multiQueryRetrieval returns holds every passage some query's
\* search returned, each once; no two of its passages have the same chunk
\* id, nor, among those without one, the same text prefix.
C9_Deduplicated ==
    RetrievalComplete =>
        /\ \A d \in run.retrieved : Occurrences(run.relevantDocs, d) = 1
        /\ \A i \in 1..Len(run.relevantDocs) : run.relevantDocs[i] \in run.retrieved
        /\ \A i, j \in 1..Len(run.relevantDocs) :
              i # j =>
                 LET a == run.relevantDocs[i]
                     b == run.relevantDocs[j]
                 IN  /\ a.chunkId # b.chunkId
                     /\ (a.chunkId = 0 /\ b.chunkId = 0) => a.prefix # b.prefix

\* two chunks with the same text prefix, one of them retrieved by two
\* queries
C9_Witness ==
    /\ RetrievalComplete
    /\ Len(run.relevantDocs) = 2
    /\ run.relevantDocs[1].prefix = run.relevantDocs[2].prefix
    /\ run.rehit

(***************************************************************************)
(* Claims about the answer stream (checked under SpecStream).              *)
(***************************************************************************)
\* each fragment extends the one before it
Cumulative(fragments) ==
    \A i \in 2..Len(fragments) : StartsWith(fragments[i], fragments[i - 1])

\* what fragment i adds to the fragment before it
AddedBy(fragments, i) ==
    IF i = 1 THEN fragments[1]
    ELSE SubSeq(fragments[i], Len(fragments[i - 1]) + 1, Len(fragments[i]))

\* the non-empty additions of the fragments, in order
Additions(fragments) ==
    SelectSeq([i \in 1..Len(fragments) |-> AddedBy(fragments, i)],
              LAMBDA t : t # <<>>)

IsBooleanField(v) == v \in {"true", "false"}

\* C8: decideRetrievalSources never throws; a failed model call or output
\* that is not a JSON object gives useBook = true, useChat = false; in a
\* parsed object a
\* useBook (useChat) that is not a boolean takes its default true (false)
\* and a boolean in the other field is kept.
C8_SelectionDefaults ==
    decision.pc = "done" =>
        /\ ~decision.out.raised
        /\ decision.raw.kind # "object"
              => (decision.out.useBook /\ ~decision.out.useChat)
        /\ decision.raw.kind = "object" =>
              /\ decision.out.useBook =
                    (IF IsBooleanField(decision.raw.useBook)
                     THEN decision.raw.useBook = "true" ELSE TRUE)
              /\ decision.out.useChat =
                    (IF IsBooleanField(decision.raw.useChat)
                     THEN decision.raw.useChat = "true" ELSE FALSE)

\* useBook is a string and useChat is true: useBook defaults, useChat is kept
C8_Witness ==
    /\ decision.pc = "done"
    /\ decision.raw.kind = "object"
    /\ decision.raw.useBook = "string"
    /\ decision.raw.useChat = "true"
    /\ decision.out.useBook
    /\ decision.out.useChat

(***************************************************************************)
(* Claims about searchChatHistory (checked under SpecChat).                *)
(***************************************************************************)
\* C10: searchChatHistory returns at most k snippets, none for a message
\* below position length - 80, and each snippet's index is the message's
\* 0-based position in the full history, with that message's role and
\* content.
C10_WindowedSearch ==
    (chat.pc = "done" /\ ~chat.result.raised) =>
        LET snippets == chat.result.snippets
            len == Len(chat.chatHistory)
        IN  /\ Len(snippets) <= chat.k
            /\ \A i \in 1..Len(snippets) :
                  /\ snippets[i].index >= len - MAX_MESSAGES
                  /\ snippets[i].index \in 0..(len - 1)
                  /\ snippets[i].role = chat.chatHistory[snippets[i].index + 1].role
                  /\ snippets[i].content = chat.chatHistory[snippets[i].index + 1].content

\* a history longer than the window, with a message about the query on each
\* side of the window's edge: k snippets, the first message of the window
\* among them
C10_Witness ==
    /\ chat.pc = "done"
    /\ Len(chat.chatHistory) > MAX_MESSAGES + 1
    /\ chat.chatHistory[Len(chat.chatHistory) - MAX_MESSAGES].content.mentions
    /\ Len(chat.result.snippets) = chat.k
    /\ \E i \in 1..Len(chat.result.snippets) :
          chat.result.snippets[i].index = Len(chat.chatHistory) - MAX_MESSAGES

(***************************************************************************)
(* Claims about the vector-store cache (checked under SpecRag).            *)
(***************************************************************************)
\* C11: once a book's index is built, getOrCreateVectorStore returns the
\* cached instance and makes no embedding call; over sequential calls the
\* book's chunks are embedded once: never twice, and exactly once as soon
\* as the index exists.
C11_BuildIdempotent ==
    /\ [](embedded <= 1)
    /\ [](bookVectorStores.book.present =>
             /\ embedded = 1
             /\ run.vectorStore \in {0, bookVectorStores.book.instance})
    /\ [][bookVectorStores.book.present =>
             /\ bookVectorStores' = bookVectorStores
             /\ embedCalls' = embedCalls
             /\ embedded' = embedded]_vars

\* a second call got the store the first call built, without a build
C11_Witness ==
    /\ runs = 2
    /\ bookVectorStores.book.present
    /\ run.vectorStore = bookVectorStores.book.instance
    /\ "build" \notin run.calls
    /\ "search" \in run.calls
    /\ embedCalls = 1

(***************************************************************************)
(* Claims about similaritySearch (checked under SpecSearch).               *)
(***************************************************************************)
\* the place of a returned document in the store
StoreIndex(doc) == CHOOSE i \in 1..Len(search.documents) : search.documents[i] = doc

Relevant == {i \in 1..Len(search.documents) : search.sims[i] > SimFloor}

\* C12: similaritySearch returns the stored entries sorted by descending
\* similarity, restricted to those strictly above 0.3, cut to the first k:
\* at most k entries, in descending order (entries of equal similarity in
\* stored order), none at or below 0.3, and the best ones above 0.3.
C12_SearchIsSortFloorTake ==
    search.pc = "done" =>
        LET out == search.out
            at(i) == StoreIndex(out[i])
            sim(i) == search.sims[at(i)]
        IN  /\ Len(out) = Min(search.k, Cardinality(Relevant))
            /\ \A i \in 1..Len(out) : at(i) \in Relevant
            /\ \A i, j \in 1..Len(out) :
                  i < j => (sim(i) > sim(j) \/ (sim(i) = sim(j) /\ at(i) < at(j)))
            /\ \A r \in Relevant :
                  (\A i \in 1..Len(out) : at(i) # r) =>
                      /\ Len(out) = search.k
                      /\ \A i \in 1..Len(out) :
                            sim(i) > search.sims[r] \/ (sim(i) = search.sims[r] /\ at(i) < r)

\* entries at 0.29, 0.30 and 0.31: only the last is returned
C12_Witness ==
    /\ search.pc = "done"
    /\ {search.sims[i] : i \in 1..Len(search.sims)} =
          {SimFloor - 1, SimFloor, SimFloor + 1}
    /\ search.k = 2
    /\ Len(search.out) = 1
    /\ search.sims[StoreIndex(search.out[1])] = SimFloor + 1

(***************************************************************************)
(* Claims about failures inside retrieval (checked under SpecRag).         *)
(***************************************************************************)
EndedInError == "Error" \in StagesOf(run.thoughts)

\* C13: when the embedding call of the book path fails (embedding the
\* chunks for the index, or a search query) and nothing else does, the
\* failure is absorbed: retrieval completes and the run does not end in the
\* Error state.
C13_EmbeddingFailureAbsorbed ==
    (GenerateAnswerSettled /\ run.failed # {} /\ run.failed \subseteq {"build", "search"})
        => (RetrievalComplete /\ ~EndedInError)

\* C14: when the query-generation call fails or returns no usable line, and
\* nothing else fails, the vector search still runs with the original
\* query and the run does not end in the Error state.
C14_PlannerKeepsOriginalQuery ==
    (GenerateAnswerSettled /\ "querygen" \in run.calls /\ run.failed \subseteq {"querygen"})
        => (run.queries >= 1 /\ "search" \in run.calls /\ ~EndedInError)

\* the model returned no usable line: one search, with the original query
C14_NoUsableLines ==
    /\ GenerateAnswerSettled
    /\ run.failed = {}
    /\ run.queries = 1
    /\ "search" \in run.calls

(***************************************************************************)
(* Claims about the order of the steps of a run (checked under SpecRag).   *)
(***************************************************************************)
RetrievalSteps == {"build", "querygen", "search", "chat"}

\* C15: in every run the selection call has settled and its Tool Selection
\* ToolUse is recorded before any retrieval step starts: while the
\* selection is pending no index build or fetch, query generation, vector
\* search or chat-history search has started.
C15_SelectionFirst ==
    /\ run.pc = "select" =>
          /\ run.calls = {}
          /\ run.vectorStore = 0
          /\ run.toolUses = <<>>
    /\ (run.calls \cap RetrievalSteps # {} \/ run.vectorStore # 0) =>
          /\ "selection" \in run.calls
          /\ run.toolUses[1] = [toolName |-> "Tool Selection", done |-> TRUE]

\* a run that built the index, generated queries, searched the book and the
\* chat history
C15_Witness ==
    /\ RetrievalSteps \subseteq run.calls
    /\ run.vectorStore # 0
    /\ run.toolUses[1].toolName = "Tool Selection"
    /\ Len(run.toolUses) >= 4

(***************************************************************************)
(* Claims about the callbacks of the answer stream (checked under          *)
(* SpecStream).                                                            *)
(***************************************************************************)
\* t is text at the end of s
IsSuffix(t, s) == Len(t) <= Len(s) /\ SubSeq(s, Len(s) - Len(t) + 1, Len(s)) = t

\* C16: onDone is called at most once, and exactly once when the stream has
\* ended; after onDone no onToken call follows (so onDone comes after the
\* last onToken); each onToken call is made for the fragment just received,
\* so the calls are in the order of the fragments.
C16_DoneOnceAfterTokens ==
    /\ [](stream.onDone <= 1)
    /\ []((stream.pc = "done") <=> (stream.onDone = 1))
    /\ [][stream.onDone >= 1 => stream'.onToken = stream.onToken]_vars
    /\ [][stream'.onToken # stream.onToken =>
             /\ Len(stream'.fragments) = Len(stream.fragments) + 1
             /\ \E t \in Fragments \ {<<>>} :
                   /\ stream'.onToken = Append(stream.onToken, t)
                   /\ IsSuffix(t, Last(stream'.fragments))]_vars

\* three tokens were passed on, then the stream ended
C16_Witness ==
    /\ stream.pc = "done"
    /\ stream.onDone = 1
    /\ Len(stream.onToken) = 3
    /\ ~Cumulative(stream.fragments)


(***************************************************************************)
(* C17: the progress reports of one translateBook invocation.              *)
(***************************************************************************)
RECURSIVE ChunksInBatches(_)
ChunksInBatches(bs) ==
    IF bs = {} THEN 0
    ELSE LET b == CHOOSE x \in bs : TRUE
         IN  Len(batches[b]) + ChunksInBatches(bs \ {b})

CompletedBatches(status) == {b \in DOMAIN status : status[b] = "done"}

\* C17: in every progress report of an invocation the total is the number of
\* chunks of the source book; current never decreases from one report to the
\* next and stays within 0..total; when a batch completes, one report is made
\* whose current is the number of chunks in the batches completed so far
\* (as long as no report has thrown, which fails the invocation); and the
\* last report of a successful invocation has current = total.
C17_ProgressSequence ==
    /\ [](\A i \in 1..Len(progressLog) :
            /\ progressLog[i].total = Len(tBook.chunks)
            /\ progressLog[i].current \in 0..progressLog[i].total
            /\ \A j \in 1..i : progressLog[j].current <= progressLog[i].current)
    /\ [](tResult.success =>
            /\ progressLog # <<>>
            /\ Last(progressLog).current = Last(progressLog).total)
    /\ [][\A b \in DOMAIN bstatus :
            (/\ bstatus[b] = "inflight" /\ b \in DOMAIN bstatus' /\ bstatus'[b] = "done"
             /\ \A c \in DOMAIN bstatus : bstatus[c] # "rejected")
            => progressLog' =
                  Append(progressLog,
                         [current |-> ChunksInBatches(CompletedBatches(bstatus')),
                          total   |-> Len(tBook.chunks)])]_vars

\* a successful invocation whose batches completed out of order, the last
\* batch being shorter than the others
C17_Witness ==
    /\ tResult.success
    /\ Len(batches) >= 2
    /\ Len(batches[Len(batches)]) < Len(batches[1])
    /\ Len(progressLog) >= 4
    /\ progressLog[3].current = Len(batches[Len(batches)])
    /\ progressLog[4].current > progressLog[3].current


(***************************************************************************)
(* C18: overlapping first accesses of one document.                        *)
(***************************************************************************)
\* C18: whatever the overlap of the callers, the chunks of a document are
\* embedded at most once, at most one vector store is created for a document
\* id, and the callers that got a store for the same document got the same
\* one.
C18_BuildSerialized ==
    \A b \in StoreBooks :
        /\ getters.embeds[b] <= 1
        /\ getters.made[b] <= 1
        /\ \A c, d \in 1..MaxCallers :
              (/\ getters.callers[c].pc = "returned"
               /\ getters.callers[d].pc = "returned"
               /\ getters.callers[c].book = b
               /\ getters.callers[d].book = b)
              => getters.callers[c].got = getters.callers[d].got

\* two first calls for the same document overlapped, no embedding failed,
\* and both callers were handed a store
C18_Overlap ==
    /\ getters.callers[1].book = getters.callers[2].book
    /\ getters.callers[1].calls = 1 /\ getters.callers[2].calls = 1
    /\ getters.callers[1].pc = "returned" /\ getters.callers[2].pc = "returned"
    /\ getters.callers[1].got # getters.callers[2].got


(***************************************************************************)
(* C19: the source document's chunk records after a translation is saved.  *)
(***************************************************************************)
\* C19: after translateBook has saved the translated book, every chunk record
\* of the source book is still stored under the source book's id with its
\* original content, and the translated chunks are stored besides them.
C19_SourceRecordsKept ==
    tResult.success =>
        /\ \A i \in 1..Len(tBook.chunks) :
              /\ tBook.chunks[i].id \in DOMAIN dbChunks
              /\ dbChunks[tBook.chunks[i].id] =
                    [bookId |-> tBook.chunks[i].bookId,
                     content |-> tBook.chunks[i].content]
        /\ Cardinality(DOMAIN dbChunks) =
              Len(tBook.chunks) + Len(translatedBook.chunks)

\* a translation was saved and a record stored under a source chunk's id now
\* belongs to the translated book
C19_Overwritten ==
    /\ tResult.success
    /\ \E i \in 1..Len(tBook.chunks) :
          /\ tBook.chunks[i].id \in DOMAIN dbChunks
          /\ dbChunks[tBook.chunks[i].id].bookId = translatedBook.id
          /\ dbChunks[tBook.chunks[i].id].bookId # tBook.chunks[i].bookId


(***************************************************************************)
(* C20: what the Reader shows when a request has settled.                  *)
(***************************************************************************)
\* C20: once handleSendMessage or handleResendEdited has settled, the content
\* of the assistant message it created equals the answer of the result that
\* generateAnswer returned, also for the not-found answer and the apology.
C20_ContentIsAnswer ==
    (reader.pc = "settled" /\ reader.created # 0)
        => reader.messages[reader.created].content = reader.result.answer

\* a request settled with the not-found answer or an apology and nothing
\* streamed: the assistant message is still empty
C20_EmptyBubble ==
    /\ reader.pc = "settled" /\ reader.created # 0
    /\ reader.result.answer \in {NotFoundAnswer, ApologyAnswer, LocalizedApology}
    /\ reader.answer = <<>>
    /\ reader.messages[reader.created].content = <<>>

\* a request whose stream ran to its end settled with the streamed text as
\* the answer and as the content
C20_Streamed ==
    /\ reader.pc = "settled" /\ reader.created # 0
    /\ reader.answer # <<>>
    /\ reader.result.answer = reader.answer
    /\ reader.messages[reader.created].content = reader.result.answer


(***************************************************************************)
(* C21: the scheduling loop of translateChunksParallel does not hang.      *)
(***************************************************************************)
\* C21: when every model call settles, every partitioned batch is eventually
\* started, batches are started in index order, a batch that waited is
\* started once a finished batch has released its slot, and
\* translateChunksParallel is eventually left (its result or its rejection
\* reaches translateBook).
C21_NoHang ==
    /\ (\E b \in DOMAIN bstatus : bstatus[b] = "queued")
          ~> (\A b \in DOMAIN bstatus : bstatus[b] # "queued")
    /\ (tpc \in {"loop", "join"}) ~> (tpc \notin {"call", "loop", "join"})
    /\ [][\A b \in DOMAIN bstatus :
             (b \in DOMAIN bstatus' /\ bstatus[b] = "queued" /\ bstatus'[b] = "inflight")
             => /\ \A a \in 1..(b - 1) : bstatus[a] # "queued"
                /\ activeBatches < maxConcurrent]_vars

\* more batches than slots: the last batch had to wait, and all batches have
\* completed and the loop and the join are behind
C21_Witness ==
    /\ Len(batches) > maxConcurrent
    /\ maxConcurrent >= 1
    /\ \A b \in 1..Len(batches) : bstatus[b] = "done"
    /\ tpc \notin {"call", "loop", "join"}


(***************************************************************************)
(* C22: overlapping invocations with different options.                    *)
(***************************************************************************)
\* C22: whatever the overlap of two invocations, each one computes the start
\* offset of a batch with the batch size it partitioned its chunks with, and
\* the output it returns has one entry per input chunk, entry k holding
\* chunk k.
C22_NoInterference ==
    \A i \in Invocations :
        /\ \A b \in DOMAIN pair.inv[i].bstatus :
              pair.inv[i].bstatus[b] # "queued"
                 => pair.inv[i].bstart[b] = (b - 1) * pair.inv[i].partitionedBy
        /\ pair.inv[i].pc = "returned" => pair.inv[i].out = PairChunks(pair.inv[i].n)

\* an invocation waiting for a slot was overtaken by a call with another
\* batch size, and has returned an output that is not its input in order
C22_Misaligned ==
    \E i \in Invocations :
        /\ pair.inv[i].pc = "returned"
        /\ pair.inv[i].partitionedBy # pair.batchSize
        /\ pair.inv[i].out # PairChunks(pair.inv[i].n)


(***************************************************************************)
(* C23: translateBatch.                                                    *)
(***************************************************************************)
\* how many non-empty texts there are up to position i
NonEmptyUpTo(texts, i) == Cardinality({k \in 1..i : IsNonEmpty(texts[k])})

\* C23: translateBatch returns (also when the model call throws) as many
\* texts as it was given; empty texts are not sent and come back unchanged; the j-th
\* non-empty text comes back as the j-th parsed translation when there is
\* one, and unchanged when the response is short or the call threw; a
\* surplus translation appears nowhere.
C23_BatchShape ==
    tb.pc = "returned" =>
        /\ Len(tb.out) = Len(tb.texts)
        /\ \A j \in 1..Len(tb.sent) : IsNonEmpty(tb.sent[j])
        /\ \A i \in 1..Len(tb.texts) :
              IF ~IsNonEmpty(tb.texts[i]) THEN tb.out[i] = tb.texts[i]
              ELSE IF ~tb.outcome.throws /\ NonEmptyUpTo(tb.texts, i) <= tb.outcome.n
                   THEN tb.out[i] = Translated(tb.texts[i])
                   ELSE tb.out[i] = tb.texts[i]
        /\ \A i \in 1..Len(tb.out) : tb.out[i] # Surplus

\* an empty text before two non-empty ones, and a response of one segment:
\* the first non-empty text is translated, the second is not
C23_Witness ==
    /\ tb.pc = "returned"
    /\ Len(tb.texts) >= 3
    /\ ~IsNonEmpty(tb.texts[1]) /\ IsNonEmpty(tb.texts[2]) /\ IsNonEmpty(tb.texts[3])
    /\ tb.outcome.n = 1 /\ ~tb.outcome.throws
    /\ tb.out[2] = Translated(tb.texts[2])
    /\ tb.out[3] = tb.texts[3]

\* a response with one segment more than was asked for
C23_SurplusIgnored ==
    /\ tb.pc = "returned"
    /\ tb.outcome.n = Len(tb.sent) + 1
    /\ Len(tb.sent) >= 1


(***************************************************************************)
(* C24: retrieval is gated by the selection.                               *)
(***************************************************************************)
\* C24: in a run the vector store is fetched or built and queries are
\* generated and searched only if the selection has useBook; the chat
\* history is searched only if the selection has useChat and a non-empty
\* history was supplied; with neither, the selection is the only call.
C24_GatedRetrieval ==
    /\ (run.calls \cap {"build", "querygen", "search"} # {} \/ run.vectorStore # 0)
          => run.selection.useBook
    /\ "chat" \in run.calls
          => (run.selection.useChat /\ rHistory.given /\ Len(rHistory.messages) > 0)
    /\ (/\ "selection" \in run.calls
        /\ ~run.selection.useBook
        /\ ~(run.selection.useChat /\ rHistory.given /\ Len(rHistory.messages) > 0))
          => (run.calls = {"selection"} /\ run.vectorStore = 0)

\* a run settled with useBook = false and useChat = true on a supplied
\* history: the chat history was searched, the book was not
C24_Witness ==
    /\ GenerateAnswerSettled
    /\ ~run.selection.useBook /\ run.selection.useChat
    /\ "chat" \in run.calls
    /\ run.calls \cap {"build", "querygen", "search"} = {}

\* a run settled with useChat = false although a history was supplied, and
\* useBook = false: no retrieval call was made
C24_NoRetrieval ==
    /\ GenerateAnswerSettled
    /\ ~run.selection.useBook /\ ~run.selection.useChat
    /\ rHistory.given /\ Len(rHistory.messages) > 0
    /\ run.calls = {"selection"}


(***************************************************************************)
(* C25, C26: searchChatHistory when embedding fails.                       *)
(***************************************************************************)
\* C25: searchChatHistory does not throw when one of its two embedding calls
\* fails (embedding the windowed messages, or embedding the query); it
\* returns keyword-scored snippets.
C25_ChatSearchNeverThrows ==
    (chat.pc = "done" /\ (~chat.embedDocsOk \/ ~chat.embedQueryOk))
        => ~chat.result.raised

\* embedding the messages succeeded and embedding the query failed, on a
\* history that has messages: the call rejected
C25_QueryEmbeddingThrows ==
    /\ chat.pc = "done"
    /\ Len(chat.chatHistory) > 0
    /\ chat.embedDocsOk /\ ~chat.embedQueryOk
    /\ chat.result.raised

\* C26: when embedding the window failed, every returned snippet contains
\* the query, whatever its role, and among the returned snippets the user
\* messages that contain it come before the assistant messages that do.
C26_FallbackOnlyMatches ==
    (chat.pc = "done" /\ ~chat.embedDocsOk) =>
        LET out == chat.result.snippets
        IN  /\ \A i \in 1..Len(out) : ContainsQuery(out[i].content)
            /\ \A i, j \in 1..Len(out) :
                  (/\ ContainsQuery(out[i].content) /\ ContainsQuery(out[j].content)
                   /\ out[i].role = "user" /\ out[j].role = "assistant")
                  => i < j

\* the fallback returned a user message that does not contain the query
C26_UserWithoutMatch ==
    /\ chat.pc = "done" /\ ~chat.embedDocsOk
    /\ \E i \in 1..Len(chat.result.snippets) :
          /\ chat.result.snippets[i].role = "user"
          /\ ~ContainsQuery(chat.result.snippets[i].content)


(***************************************************************************)
(* C27, C28: what is streamed and what is returned.                        *)
(***************************************************************************)
\* the texts of a sequence, one after the other
RECURSIVE Concat(_)
Concat(texts) ==
    IF texts = <<>> THEN <<>> ELSE Head(texts) \o Concat(Tail(texts))

\* C27: for a provider whose fragments are new text only, the strings passed
\* to onToken, put together, and the answer returned are all the fragments
\* put together, also when a fragment repeats or extends the one before it.
C27_DeltaLossless ==
    stream.pc = "done" =>
        /\ Concat(stream.onToken) = Concat(stream.fragments)
        /\ stream.returned = Concat(stream.fragments)

\* two equal fragments of new text ("ha", "ha"): the second one is dropped
C27_RepeatDropped ==
    /\ stream.pc = "done"
    /\ Len(stream.fragments) = 2
    /\ stream.fragments[1] # <<>>
    /\ stream.fragments[2] = stream.fragments[1]
    /\ stream.returned = stream.fragments[1]
    /\ Len(stream.onToken) = 1

\* C28: the text returned is the strings passed to onToken put together in
\* call order, for every fragment stream, also when no delta was non-empty.
C28_ReturnedIsStreamed ==
    /\ stream.pc \in {"read", "done"} => stream.answer = Concat(stream.onToken)
    /\ stream.pc = "done" => stream.returned = Concat(stream.onToken)

\* a stream that ended after fragments that differ from the first character
\* on, and after an empty one
C28_Witness ==
    /\ stream.pc = "done"
    /\ Len(stream.fragments) = 3
    /\ ~Cumulative(stream.fragments)
    /\ \E i \in 1..3 : stream.fragments[i] = <<>>
    /\ Len(stream.onToken) = 2
    /\ stream.returned = Concat(stream.onToken)

\* a stream of empty fragments only: nothing streamed, the empty text returned
C28_AllDeltasEmpty ==
    /\ stream.pc = "done"
    /\ Len(stream.fragments) >= 1
    /\ stream.onToken = <<>>
    /\ stream.returned = <<>>


(***************************************************************************)
(* C29: deleting a book when its chat threads cannot be deleted.           *)
(***************************************************************************)
\* C29: when deleting the book's chat threads is what fails, the deletion
\* still goes through: the book and its chunks are gone from storage and
\* the book is gone from the application's list.
C29_ThreadFailureSwallowed ==
    (/\ app.pc = "done"
     /\ app.failed # {}
     /\ app.failed \subseteq {"threads", "appThreads"})
        => /\ app.bookId \notin app.dbBooks
           /\ app.bookId \notin app.dbChunks
           /\ app.bookId \notin app.books

\* the book and its chunks were deleted from storage, the thread deletion
\* inside deleteBook failed, and the book is still in the list
C29_StillListed ==
    /\ app.pc = "done"
    /\ app.failed = {"threads"}
    /\ app.bookId \notin app.dbBooks
    /\ app.bookId \notin app.dbChunks
    /\ app.bookId \in app.books

\* the thread deletion made by handleDeleteBook itself failed and the book
\* left the list
C29_AppFailureSwallowed ==
    /\ app.pc = "done"
    /\ app.failed = {"appThreads"}
    /\ app.bookId \notin app.dbBooks
    /\ app.bookId \notin app.books


(***************************************************************************)
(* C30: the embeddings of the translated chunks.                           *)
(***************************************************************************)
\* C30: in translateBook no embedding is requested before every translation
\* batch has completed; the embedding loop requests consecutive sub-batches
\* of at most EmbeddingBatchSize chunks in index order; and every output
\* chunk carries exactly one embedding, the one computed from its own
\* content (translated or not).
C30_EmbeddingsAfterTranslation ==
    /\ (tpc = "embed" \/ embedI > 0 \/ allEmbeddings # <<>>)
          => \A b \in 1..Len(batches) : bstatus[b] = "done"
    /\ translatedBook # NoBook =>
          /\ Len(allEmbeddings) = Len(translatedBook.chunks)
          /\ \A k \in 1..Len(translatedBook.chunks) :
                translatedBook.chunks[k].embedding.of = translatedBook.chunks[k].content
    /\ emb.pc # "idle" =>
          /\ \A r \in 1..Len(emb.requests) :
                /\ emb.requests[r].from = (r - 1) * EmbeddingBatchSize
                /\ emb.requests[r].to =
                      Min(r * EmbeddingBatchSize, Len(emb.translatedChunks))
                /\ emb.requests[r].count = emb.requests[r].to - emb.requests[r].from
                /\ emb.requests[r].count \in 1..EmbeddingBatchSize
          /\ emb.pc = "done" =>
                /\ Len(emb.allEmbeddings) = Len(emb.translatedChunks)
                /\ Len(emb.chunksWithEmbeddings) = Len(emb.translatedChunks)
                /\ \A k \in 1..Len(emb.translatedChunks) :
                      /\ emb.chunksWithEmbeddings[k].content =
                            emb.translatedChunks[k].content
                      /\ emb.chunksWithEmbeddings[k].embedding.of =
                            emb.translatedChunks[k].content

\* a list of more than two sub-batches' worth of chunks, some of them not
\* translated, embedded in three requests, one of them by the fallback
C30_Witness ==
    /\ emb.pc = "done"
    /\ Len(emb.requests) = 3
    /\ emb.requests[3].count < EmbeddingBatchSize
    /\ \E k \in 1..Len(emb.translatedChunks) : ~emb.translatedChunks[k].content.tr
    /\ \E k \in 1..Len(emb.allEmbeddings) : emb.allEmbeddings[k].via = "fallback"

\* a short book whose batches finished out of order, with its embeddings
C30_ShortBook ==
    /\ translatedBook # NoBook
    /\ Len(translatedBook.chunks) >= 2
    /\ Len(batches) >= 2
    /\ \E k \in 1..Len(translatedBook.chunks) : ~translatedBook.chunks[k].content.tr


(***************************************************************************)
(* C31: the thoughts of a run and the onThought calls.                     *)
(***************************************************************************)
IsPrefix(s, t) == Len(s) <= Len(t) /\ SubSeq(t, 1, Len(s)) = s

\* C31: the thoughts of the returned result are, in order, the thoughts
\* passed to onThought during the run; the list only grows during a run; it
\* starts with Initialization and ends with Complete, No Results or Error.
C31_ThoughtsAreCallbacks ==
    /\ [](run.thoughts = run.onThought)
    /\ [](GenerateAnswerSettled =>
            /\ run.result.thoughts = run.onThought
            /\ run.result.thoughts[1] = "Initialization"
            /\ Last(run.result.thoughts) \in {"Complete", "No Results", "Error"})
    /\ [][runs' = runs => IsPrefix(run.thoughts, run'.thoughts)]_vars

\* a run that retrieved from the book and the chat history and completed
C31_Witness ==
    /\ GenerateAnswerSettled
    /\ Last(run.result.thoughts) = "Complete"
    /\ {"Query Analysis", "Chat Context", "Reasoning"} \subseteq StagesOf(run.result.thoughts)
    /\ run.onThought = run.result.thoughts


(***************************************************************************)
(* C32: the apology of the Error path.                                     *)
(***************************************************************************)
\* C32: a run asks for the apology to be rewritten exactly once when it is
\* in its Error path and never otherwise; when that call fails the answer
\* is the fixed apology, and the run still returns a result.
C32_ApologyOnce ==
    /\ run.rewrites = (IF "Error" \in StagesOf(run.thoughts) THEN 1 ELSE 0)
    /\ (GenerateAnswerSettled /\ "Error" \in StagesOf(run.thoughts)) =>
          /\ ~run.result.raised
          /\ run.result.answer = (IF "apology" \in run.failed THEN ApologyAnswer
                                  ELSE LocalizedApology)

\* a search failed, then the rewrite failed: the fixed apology is returned
C32_Witness ==
    /\ GenerateAnswerSettled
    /\ "apology" \in run.failed
    /\ run.rewrites = 1
    /\ run.result.answer = ApologyAnswer
    /\ ~run.result.raised

(***************************************************************************)
(* C33: callbacks that throw.                                              *)
(***************************************************************************)
\* C33: generateAnswer returns a result and does not throw, whichever of the
\* caller's callbacks throw and wherever they throw: the run never ends
\* rejected.
C33_NeverThrows == cbRun.pc # "rejected"

\* the initial onThought call threw and generateAnswer rejected before it
\* entered its try block
C33_InitialThoughtThrows ==
    /\ cbRun.pc = "rejected"
    /\ cbRun.threw = InitThoughtSite.line
    /\ cbRun.stages = <<"Initialization">>

\* the onThought call of the Error path threw and generateAnswer rejected
C33_ErrorThoughtThrows ==
    /\ cbRun.pc = "rejected"
    /\ cbRun.threw = ErrorThoughtSite.line
    /\ Last(cbRun.stages) = "Error"

\* a callback threw inside the try block and generateAnswer returned the
\* apology
C33_CaughtInTry ==
    /\ cbRun.pc = "returned"
    /\ cbRun.threw \in {TryCallSites[i].line : i \in 1..Len(TryCallSites)}
    /\ cbRun.throwing \cap {"onToken", "onDone", "onToolUse", "onProgress"} # {}
    /\ "onThought" \notin cbRun.throwing

(***************************************************************************)
(* C34: one run at a time per chat thread.                                 *)
(***************************************************************************)
\* C34: no run is started for the thread while another is in flight,
\* whichever entry point is used, so at most one run is in flight and every
\* assistant message holds only the tokens of the run whose placeholder it
\* is.
C34_OneRunPerThread ==
    /\ Cardinality(panel.inflight) <= 1
    /\ \A i \in 1..Len(panel.messages) :
          \A j \in 1..Len(panel.messages[i].tokens) :
              panel.messages[i].tokens[j] = panel.messages[i].owner

\* a selection action started a second run while the first was in flight
C34_SelectionDuringRun ==
    /\ panel.inflight = {1, 2}
    /\ panel.via[2] \in {"summarize", "explain"}

\* Ctrl/Cmd+Enter in the edit box started a second run while the first was
\* in flight
C34_EditKeyDuringRun ==
    /\ panel.inflight = {1, 2}
    /\ panel.via[2] = "Ctrl+Enter"

\* a token of the first run was appended to the placeholder of the second
C34_TokenInOtherPlaceholder ==
    \E i \in 1..Len(panel.messages) :
        /\ panel.messages[i].owner = 2
        /\ panel.messages[i].tokens = <<1>>

(***************************************************************************)
(* C35: a failed build of the vector index.                                *)
(***************************************************************************)
\* C35: when embedding the book's chunks throws, the cache is left as it
\* was, without an entry for the book; a cached store always holds all the
\* documents of the book; and a later call that selects the book while the
\* cache has no entry starts the build again.
C35_FailedBuildNotCached ==
    /\ [][(run.pc = "build" /\ "build" \in run'.failed)
             => /\ bookVectorStores' = bookVectorStores
                /\ ~HasStore(bookVectorStores')]_vars
    /\ [](HasStore(bookVectorStores)
             => /\ bookVectorStores.book.documents = DocumentsOf(rBook)
                /\ embedded = 1)
    /\ [][(run.pc = "select" /\ run'.pc # "select" /\ run'.selection.useBook
           /\ ~HasStore(bookVectorStores))
             => /\ run'.pc = "build"
                /\ embedCalls' = embedCalls + 1]_vars

\* the build of the first call failed and the second call is building again
C35_Witness ==
    /\ runs = 2
    /\ embedCalls = 2
    /\ embedded = 0
    /\ run.pc = "build"
    /\ ~HasStore(bookVectorStores)

(***************************************************************************)
(* C36: the progress reported by translateBookWithPython.                  *)
(***************************************************************************)
\* every onProgress call of one translateBookWithPython invocation, in
\* order: its own and the timer's, then those of the translateBook it fell
\* back to
AllReports ==
    [i \in 1..Len(py.log) |-> [current |-> py.log[i].current, total |-> py.log[i].total]]
    \o progressLog

\* C36: over all the onProgress calls of one invocation, fallback to
\* translateBook included, the fraction current/total never decreases.
C36_FractionNeverDecreases ==
    py.pc # "idle" =>
        \A i \in 1..(Len(AllReports) - 1) :
            AllReports[i].current * AllReports[i + 1].total
                <= AllReports[i + 1].current * AllReports[i].total

\* the timer had reported 90 of 100 when the Python call failed, and
\* translateBook then reported 0 of its chunk count
C36_RestartAfterTimer ==
    /\ py.pc = "fallback"
    /\ Len(py.log) >= 2
    /\ Last(py.log) = Report(SimulatedCap, "timer")
    /\ Len(progressLog) >= 1
    /\ progressLog[1].current = 0

\* the save failed after the 95% report, and translateBook then reported 0
C36_RestartAfterSave ==
    /\ py.pc = "fallback"
    /\ Len(py.log) >= 1
    /\ Last(py.log) = Report(95, "code")
    /\ Len(progressLog) >= 1
    /\ progressLog[1].current = 0

\* a run without fallback reported 0, the timer's values, 95 and 100
C36_PythonPathReports ==
    /\ py.pc = "done"
    /\ py.success
    /\ tpc = "idle"
    /\ py.ticks = MaxTicks
    /\ Last(py.log) = Report(100, "code")


(***************************************************************************)
(* C37: the simulated-progress timer.                                      *)
(***************************************************************************)
\* C37: once the Python translation call has settled, the timer is cleared:
\* the timer callback runs only while that call is pending, never during
\* the fallback to translateBook and never after the function returned.
C37_TimerStopsAtSettle ==
    /\ []((py.pc # "idle" /\ (py.settled \/ py.returned \/ py.pc = "fallback"))
             => py.timer # "running")
    /\ [][(py.pc # "idle" /\ py'.ticks # py.ticks)
             => (py.pc = "python" /\ ~py.settled)]_vars
    /\ [][(py.pc # "idle" /\ (py.settled \/ py.pc = "fallback"))
             => \A i \in 1..Len(py'.log) :
                   py'.log[i].by = "timer" => (i <= Len(py.log) /\ py.log[i] = py'.log[i])]_vars

\* the Python call failed after the timer had run, and translateBook is
\* under way with the timer cleared
C37_Witness ==
    /\ py.pc = "fallback"
    /\ py.settled
    /\ py.ticks >= 1
    /\ py.timer = "cleared"
    /\ tpc = "loop"
    /\ Len(progressLog) >= 1

(***************************************************************************)
(* C38: the queries of multiQueryRetrieval.                                *)
(***************************************************************************)
\* the lines of the model's output that are not blank, in order
NonBlankLines(text) ==
    LET lines == SplitLines(text)
    IN  SelectSeq(lines, LAMBDA l : \E i \in 1..Len(l) : l[i] = "a")

\* C38: the query list has at most 4 entries: the original query, as given,
\* first, then the first 3 non-blank lines of the model's output (all of
\* them when there are fewer), blank lines left out; and the searches made
\* are one per query, in the list's order, each with k = 5.
C38_QueriesAndSearches ==
    mq.pc \in {"search", "done"} =>
        LET generated == Tail(mq.queries)
            nonBlank  == NonBlankLines(mq.output)
        IN  /\ Len(mq.queries) <= 4
            /\ mq.queries[1] = mq.query
            /\ IsPrefix(generated, nonBlank)
            /\ Len(generated) = Min(3, Len(nonBlank))
            /\ Len(mq.searches) = mq.i
            /\ mq.i <= Len(mq.queries)
            /\ \A j \in 1..Len(mq.searches) :
                  mq.searches[j] = [query |-> mq.queries[j], k |-> 5]
            /\ mq.pc = "done" => Len(mq.searches) = Len(mq.queries)

\* the model returned four non-blank lines: three were kept and four
\* searches made
C38_Witness ==
    /\ mq.pc = "done"
    /\ Len(NonBlankLines(mq.output)) = 4
    /\ Len(mq.queries) = 4
    /\ Len(mq.searches) = 4

\* a blank line between two queries was left out
C38_BlankLineDiscarded ==
    /\ mq.pc = "done"
    /\ mq.output = <<"a", "\n", " ", "\n", "a", "a">>
    /\ mq.queries = <<mq.query, <<"a">>, <<"a", "a">> >>

=============================================================================
